---------------------------- MODULE Spec2Model ----------------------------
(***************************************************************************)
(* A model of the planck emulator core: the 65C02 execution engine of      *)
(* src/src/computer.rs (Computer), its decoder src/src/computer/decode.rs, *)
(* the memory bus with the CF disk registers and the serial mailbox, and    *)
(* the engine thread of src/src/app.rs that owns the Computer.              *)
(*                                                                         *)
(* The Computer is a record c; a method fn m(&mut self, ..) -> T is an      *)
(* operator m(c, ..) giving the Computer after the call, or a record        *)
(* [c |-> the Computer after, v |-> the value returned] when it returns one.*)
(* Numbers written \hNN are hexadecimal, as in the source.                  *)
(***************************************************************************)
EXTENDS Integers, Sequences, FiniteSets, TLC

VARIABLES
    processor,        \* Computer.processor: flags, acc, rx, ry, pc, sp, clock, inst
    data,             \* Computer.data: the 64KB address space, non-zero bytes only
    disk,             \* Computer.disk: the disk image, a sequence of bytes
    lba,              \* Computer.lba
    disk_cnt,         \* Computer.disk_cnt
    command,          \* Computer.command: "Read", "Write" or "None"
    paused,           \* Computer.paused
    step_req,         \* Computer.step
    speed,            \* Computer.speed
    log_level,        \* Computer.log_level
    info,             \* Computer.info: sequence of [msg, qty]
    tx,               \* the ComputerMessages sent so far on Computer.tx
    rx,               \* the ControllerMessages waiting in Computer.rx
    thread,           \* the engine thread of App::new: "new" (Computer built), "loop"
    panic,            \* "none", or why the engine thread panicked and ended
    overflow_checks,  \* the build: TRUE when integer overflow panics (debug profile)
    via,              \* a Via of src/src/computer/via.rs (no Computer holds one)
    via_calls,        \* the calls made on via: whether the last call other than
                      \* tick wrote register 5, and the number of ticks since
    app               \* the App of src/src/app.rs on the main thread, with the
                      \* ComputerMessages it has taken from its rx (received) and
                      \* the number of events it has handled (calls)

vars == <<processor, data, disk, lba, disk_cnt, command, paused, step_req, speed,
          log_level, info, tx, rx, thread, panic, overflow_checks, via, via_calls, app>>

---------------------------------------------------------------------------
(* Machine arithmetic on u8 / u16 / u32 values.                            *)

Byte == 0..255

W8(x) == x % 256

W16(x) == x % 65536

RECURSIVE BitAnd(_,_)
BitAnd(x, y) ==
    IF x = 0 \/ y = 0 THEN 0
    ELSE (x % 2) * (y % 2) + 2 * BitAnd(x \div 2, y \div 2)

BitOr(x, y) == x + y - BitAnd(x, y)

BitXor(x, y) == x + y - 2 * BitAnd(x, y)

\* !m on a u8
BitNot8(m) == 255 - m

Shr(x, n) == x \div (2 ^ n)

\* offset as i8
AsI8(b) == IF b >= 128 THEN b - 256 ELSE b

\* (x as i32) as u16, for x in -65536..131071
AsU16(x) == (x + 65536) % 65536

FLAG_C == 1
FLAG_Z == 2
FLAG_I == 4
FLAG_D == 8
FLAG_O == 64
FLAG_N == 128

CF_ADDRESS == \hFFD0

---------------------------------------------------------------------------
(* The decoder: src/src/computer/decode.rs                                 *)

AdressingMode ==
    {"Immediate", "ZeroPage", "ZeroPageX", "Absolute", "AbsoluteX", "AbsoluteY",
     "IndirectX", "IndirectY", "Indirect", "ZeroPageY", "Accumulator",
     "ZeroPageIndirect", "None"}

\* the first match of get_opcode_name: the single-byte exceptions
OpcodeNameException(opcode) ==
    CASE opcode \in {\h02, \h22, \h42, \h62, \h82, \hC2, \hE2,
                     \h44, \h54, \hD4, \hF4} -> "NOP2"
      [] opcode \in {\h04, \h0C} -> "TSB"
      [] opcode \in {\h14, \h1C} -> "TRB"
      [] opcode = \h12 -> "ORA"
      [] opcode = \h32 -> "AND"
      [] opcode = \h52 -> "EOR"
      [] opcode = \h72 -> "ADC"
      [] opcode = \h92 -> "STA"
      [] opcode = \hB2 -> "LDA"
      [] opcode = \hD2 -> "CMP"
      [] opcode = \hF2 -> "SBC"
      [] opcode \in {\h5C, \hDC, \hFC} -> "NOP3"
      [] opcode = \h10 -> "BPL"
      [] opcode = \h30 -> "BMI"
      [] opcode = \h50 -> "BVC"
      [] opcode = \h70 -> "BVS"
      [] opcode = \h90 -> "BCC"
      [] opcode = \hB0 -> "BCS"
      [] opcode = \hD0 -> "BNE"
      [] opcode = \hF0 -> "BEQ"
      [] opcode = \h7C -> "JMP"
      [] opcode = \h5A -> "PHY"
      [] opcode = \h1A -> "INC"
      [] opcode = \h3A -> "DEC"
      [] opcode = \h7A -> "PLY"
      [] opcode = \hDA -> "PHX"
      [] opcode = \hFA -> "PLX"
      [] opcode = \h80 -> "BRA"
      [] opcode = \h00 -> "BRK"
      [] opcode = \h20 -> "JSR"
      [] opcode = \h40 -> "RTI"
      [] opcode = \h60 -> "RTS"
      [] opcode = \h08 -> "PHP"
      [] opcode = \h28 -> "PLP"
      [] opcode = \h48 -> "PHA"
      [] opcode = \h68 -> "PLA"
      [] opcode = \h88 -> "DEY"
      [] opcode = \hA8 -> "TAY"
      [] opcode = \hC8 -> "INY"
      [] opcode = \hE8 -> "INX"
      [] opcode = \h18 -> "CLC"
      [] opcode = \h38 -> "SEC"
      [] opcode = \h58 -> "CLI"
      [] opcode = \h78 -> "SEI"
      [] opcode = \h98 -> "TYA"
      [] opcode = \hB8 -> "CLV"
      [] opcode = \hD8 -> "CLD"
      [] opcode = \hF8 -> "SED"
      [] opcode = \h8A -> "TXA"
      [] opcode = \h9A -> "TXS"
      [] opcode = \hAA -> "TAX"
      [] opcode = \hBA -> "TSX"
      [] opcode = \hCA -> "DEX"
      [] opcode = \hEA -> "NOP"
      [] opcode = \h0F -> "BBR0"
      [] opcode = \h1F -> "BBR1"
      [] opcode = \h2F -> "BBR2"
      [] opcode = \h3F -> "BBR3"
      [] opcode = \h4F -> "BBR4"
      [] opcode = \h5F -> "BBR5"
      [] opcode = \h6F -> "BBR6"
      [] opcode = \h7F -> "BBR7"
      [] opcode = \h8F -> "BBS0"
      [] opcode = \h9F -> "BBS1"
      [] opcode = \hAF -> "BBS2"
      [] opcode = \hBF -> "BBS3"
      [] opcode = \hCF -> "BBS4"
      [] opcode = \hDF -> "BBS5"
      [] opcode = \hEF -> "BBS6"
      [] opcode = \hFF -> "BBS7"
      [] opcode \in {\h64, \h9C, \h74, \h9E} -> "STZ"
      [] opcode = \h89 -> "BIT"
      [] OTHER -> "-"

\* the second match of get_opcode_name: the (cc, aaa) tables
OpcodeNameTable(cc, aaa) ==
    CASE cc = 0 ->
           (CASE aaa = 1 -> "BIT"
              [] aaa = 2 -> "JMP"
              [] aaa = 3 -> "JMP"
              [] aaa = 4 -> "STY"
              [] aaa = 5 -> "LDY"
              [] aaa = 6 -> "CPY"
              [] aaa = 7 -> "CPX"
              [] OTHER -> "")
      [] cc = 1 ->
           (CASE aaa = 0 -> "ORA"
              [] aaa = 1 -> "AND"
              [] aaa = 2 -> "EOR"
              [] aaa = 3 -> "ADC"
              [] aaa = 4 -> "STA"
              [] aaa = 5 -> "LDA"
              [] aaa = 6 -> "CMP"
              [] aaa = 7 -> "SBC"
              [] OTHER -> "")
      [] cc = 2 ->
           (CASE aaa = 0 -> "ASL"
              [] aaa = 1 -> "ROL"
              [] aaa = 2 -> "LSR"
              [] aaa = 3 -> "ROR"
              [] aaa = 4 -> "STX"
              [] aaa = 5 -> "LDX"
              [] aaa = 6 -> "DEC"
              [] aaa = 7 -> "INC"
              [] OTHER -> "")
      [] OTHER -> ""

get_opcode_name(opcode) ==
    LET cc  == opcode % 4
        aaa == Shr(opcode, 5) % 8
        ex  == OpcodeNameException(opcode)
    IN  IF ex # "-" THEN ex ELSE OpcodeNameTable(cc, aaa)

\* the early returns of get_adressing_mode
AdressingModeException(opcode) ==
    CASE opcode = \h6C -> "Indirect"
      [] opcode = \h4C -> "Absolute"
      [] opcode = \h7C -> "IndirectX"
      [] opcode = \h89 -> "Immediate"
      [] opcode \in {\h1A, \h3A} -> "Accumulator"
      [] opcode \in {\h64, \h14, \h04} -> "ZeroPage"
      [] opcode \in {\h9C, \h1C, \h0C} -> "Absolute"
      [] opcode = \h74 -> "ZeroPageX"
      [] opcode \in {\h12, \h32, \h52, \h72, \h92, \hB2, \hD2, \hF2} -> "ZeroPageIndirect"
      [] opcode = \h9E -> "AbsoluteX"
      [] OTHER -> "-"

\* the match on (cc, bbb) of get_adressing_mode
AdressingModeTable(opcode, cc, bbb) ==
    CASE cc = 0 ->
           (CASE bbb = 0 -> "Immediate"
              [] bbb = 1 -> "ZeroPage"
              [] bbb = 3 -> "Absolute"
              [] bbb = 5 -> "ZeroPageX"
              [] bbb = 7 -> "AbsoluteX"
              [] OTHER -> "None")
      [] cc = 1 ->
           (CASE bbb = 0 -> "IndirectX"
              [] bbb = 1 -> "ZeroPage"
              [] bbb = 2 -> "Immediate"
              [] bbb = 3 -> "Absolute"
              [] bbb = 4 -> "IndirectY"
              [] bbb = 5 -> "ZeroPageX"
              [] bbb = 6 -> "AbsoluteY"
              [] bbb = 7 -> "AbsoluteX"
              [] OTHER -> "None")
      [] cc = 2 ->
           (CASE bbb = 0 -> "Immediate"
              [] bbb = 1 -> "ZeroPage"
              [] bbb = 2 -> "Accumulator"
              [] bbb = 3 -> "Absolute"
              [] bbb = 5 -> IF get_opcode_name(opcode) = "STX"
                               \/ get_opcode_name(opcode) = "LDX"
                            THEN "ZeroPageY" ELSE "ZeroPageX"
              [] bbb = 7 -> IF get_opcode_name(opcode) = "LDX"
                            THEN "AbsoluteY" ELSE "AbsoluteX"
              [] OTHER -> "None")
      [] OTHER -> "None"

\* a decoder that lacks the early returns of get_adressing_mode
get_adressing_mode_by_table(opcode) ==
    AdressingModeTable(opcode, opcode % 4, Shr(opcode, 2) % 8)

get_adressing_mode(opcode) ==
    LET bbb == Shr(opcode, 2) % 8
        cc  == opcode % 4
        ex  == AdressingModeException(opcode)
    IN  IF ex # "-" THEN ex ELSE AdressingModeTable(opcode, cc, bbb)

---------------------------------------------------------------------------
(* The Computer as a value, and the bus: Computer::read / Computer::write  *)

Self ==
    [processor |-> processor, data |-> data, disk |-> disk, lba |-> lba,
     disk_cnt |-> disk_cnt, command |-> command, paused |-> paused,
     step |-> step_req, speed |-> speed, log_level |-> log_level, info |-> info,
     tx |-> tx, rx |-> rx, panic |-> panic, overflow_checks |-> overflow_checks]

\* panic!(..), an arithmetic overflow under overflow checks, or an index out of
\* bounds: the first one ends the thread, nothing after it takes effect
Panic(c, why) == IF c.panic = "none" THEN [c EXCEPT !.panic = why] ELSE c

\* v exceeds the type's maximum in a build that checks overflow
Overflows(c, v, max) == c.overflow_checks /\ (v > max \/ v < 0)

\* self.data[addr as usize]
Peek(c, addr) == IF addr \in DOMAIN c.data THEN c.data[addr] ELSE 0

\* self.data[addr as usize] = value  (data holds the non-zero bytes)
Poke(mem, addr, value) ==
    IF value = 0
    THEN [a \in (DOMAIN mem) \ {addr} |-> mem[a]]
    ELSE [a \in (DOMAIN mem) \cup {addr} |-> IF a = addr THEN value ELSE mem[a]]

\* let _ = self.tx.send(message)
Send(c, message) == [c EXCEPT !.tx = Append(@, message)]

InCfWindow(c, addr) ==
    Len(c.disk) > 0 /\ addr >= CF_ADDRESS /\ addr < CF_ADDRESS + \h10

\* (self.lba * 512 + self.disk_cnt as u32) as usize, with how it fails.  The u32
\* product is kept as a sector number: lba * 512 mod 2^32 = (lba mod 2^23) * 512,
\* and it overflows exactly when lba >= 2^23.
DiskIndex(c) ==
    LET sector   == c.lba % 8388608
        prod_ovf == c.lba >= 8388608
        sum_ovf  == sector = 8388607 /\ c.disk_cnt >= 512
        far      == sector >= 2097152
    IN  IF c.overflow_checks /\ (prod_ovf \/ sum_ovf)
        THEN [ok |-> FALSE, why |-> "overflow", i |-> 0]
        ELSE IF sum_ovf
        THEN (IF c.disk_cnt - 512 >= Len(c.disk)
              THEN [ok |-> FALSE, why |-> "index", i |-> 0]
              ELSE [ok |-> TRUE, why |-> "none", i |-> c.disk_cnt - 512])
        ELSE IF far \/ sector * 512 + c.disk_cnt >= Len(c.disk)
        THEN [ok |-> FALSE, why |-> "index", i |-> 0]
        ELSE [ok |-> TRUE, why |-> "none", i |-> sector * 512 + c.disk_cnt]

\* self.disk_cnt += 1; if self.disk_cnt > 512 { self.command = DiskCommand::None; }
DiskAdvance(c) ==
    LET n == c.disk_cnt + 1
    IN  [c EXCEPT !.disk_cnt = n,
                  !.command = IF n > 512 THEN "None" ELSE @]

\* a read that leaves the byte in the mailbox at 0xFFE0
read_keeping_mailbox(c, addr) ==
    LET reg == addr % 8
    IN  IF c.panic # "none" THEN [c |-> c, v |-> 0]
        ELSE IF InCfWindow(c, addr) /\ reg = 0
        THEN IF c.command = "Read"
             THEN LET ix == DiskIndex(c)
                  IN  IF ~ix.ok THEN [c |-> Panic(c, ix.why), v |-> 0]
                      ELSE [c |-> DiskAdvance(c), v |-> c.disk[ix.i + 1]]
             ELSE [c |-> c, v |-> 0]
        ELSE IF InCfWindow(c, addr) /\ reg = 7
        THEN [c |-> c, v |-> IF c.command # "None" THEN \h58 ELSE \h50]
        ELSE IF addr = \hFFE0
        THEN [c |-> [c EXCEPT !.data = Poke(@, \hFFE1, 0)], v |-> Peek(c, \hFFE0)]
        ELSE [c |-> c, v |-> Peek(c, addr)]

read(c, addr) ==
    LET reg == addr % 8
    IN  IF c.panic # "none" THEN [c |-> c, v |-> 0]
        ELSE IF InCfWindow(c, addr) /\ reg = 0
        THEN IF c.command = "Read"
             THEN LET ix == DiskIndex(c)
                  IN  IF ~ix.ok THEN [c |-> Panic(c, ix.why), v |-> 0]
                      ELSE [c |-> DiskAdvance(c), v |-> c.disk[ix.i + 1]]
             ELSE [c |-> c, v |-> 0]
        ELSE IF InCfWindow(c, addr) /\ reg = 7
        THEN [c |-> c, v |-> IF c.command # "None" THEN \h58 ELSE \h50]
        ELSE IF addr = \hFFE0
        THEN [c |-> [c EXCEPT !.data = Poke(Poke(@, \hFFE1, 0), \hFFE0, 0)],
              v |-> Peek(c, \hFFE0)]
        ELSE [c |-> c, v |-> Peek(c, addr)]

\* ((value as u32) << n) & mask: a value shifted left by n has its low n bits
\* zero, so a mask below 2^n selects nothing
ShlMask(value, n, mask) ==
    IF mask < 2 ^ n THEN 0 ELSE BitAnd(value * (2 ^ n), mask)

\* value.try_into() for DiskCommand, Err(_) => DiskCommand::None
DiskCommandOf(value) ==
    CASE value = \h20 -> "Read"
      [] value = \h30 -> "Write"
      [] OTHER -> "None"

\* the register part of write with a command register that resets the byte
\* count whatever the command
WriteCfAlwaysResetting(c, reg, value) ==
    CASE reg = 0 ->
           IF c.command = "Write"
           THEN LET ix == DiskIndex(c)
                IN  IF ~ix.ok THEN Panic(c, ix.why)
                    ELSE DiskAdvance([c EXCEPT !.disk[ix.i + 1] = value])
           ELSE c
      [] reg = 3 -> [c EXCEPT !.lba = (@ - (@ % 256)) + value]
      [] reg = 4 -> [c EXCEPT !.lba = (@ - (Shr(@, 8) % 256) * 256) + value * 256]
      [] reg = 5 -> [c EXCEPT !.lba = (@ - (Shr(@, 16) % 256) * 65536) + value * 65536]
      [] reg = 6 -> [c EXCEPT !.lba = BitOr(@ % 16777216, ShlMask(value, 24, \h0F))]
      [] reg = 7 -> [c EXCEPT !.command = DiskCommandOf(value), !.disk_cnt = 0]
      [] OTHER -> c

\* the register part of write, for an address in the CF window
WriteCf(c, reg, value) ==
    CASE reg = 0 ->
           IF c.command = "Write"
           THEN LET ix == DiskIndex(c)
                IN  IF ~ix.ok THEN Panic(c, ix.why)
                    ELSE DiskAdvance([c EXCEPT !.disk[ix.i + 1] = value])
           ELSE c
      [] reg = 3 -> [c EXCEPT !.lba = (@ - (@ % 256)) + value]
      [] reg = 4 -> [c EXCEPT !.lba = (@ - (Shr(@, 8) % 256) * 256) + value * 256]
      [] reg = 5 -> [c EXCEPT !.lba = (@ - (Shr(@, 16) % 256) * 65536) + value * 65536]
      [] reg = 6 -> [c EXCEPT !.lba = BitOr(@ % 16777216, ShlMask(value, 24, \h0F))]
      [] reg = 7 ->
           LET cmd == DiskCommandOf(value)
           IN  [c EXCEPT !.command = cmd,
                         !.disk_cnt = IF cmd # "None" THEN 0 ELSE @]
      [] OTHER -> c

\* a write that takes 0xFFE1 for the serial port as well
write_with_output_at_ffe1(c, addr, value) ==
    LET c1 == IF InCfWindow(c, addr) THEN WriteCf(c, addr % 8, value)
              ELSE IF addr \in {\hFFE0, \hFFE1}
              THEN Send(c, [type |-> "Output", v |-> value])
              ELSE c
    IN  IF c.panic # "none" THEN c
        ELSE IF c1.panic # "none" THEN c1
        ELSE [c1 EXCEPT !.data = Poke(@, addr, value)]

\* Computer::write
write(c, addr, value) ==
    LET c1 == IF InCfWindow(c, addr) THEN WriteCf(c, addr % 8, value)
              ELSE IF addr = \hFFE0 THEN Send(c, [type |-> "Output", v |-> value])
              ELSE c
    IN  IF c.panic # "none" THEN c
        ELSE IF c1.panic # "none" THEN c1
        ELSE [c1 EXCEPT !.data = Poke(@, addr, value)]

\* Computer::get_word
get_word(c, address) ==
    LET lo == read(c, address)
        hi == read(lo.c, W16(address + 1))
    IN  [c |-> hi.c, v |-> lo.v + hi.v * 256]

\* Computer::set_flags
set_flags(flags, val) ==
    LET f1 == IF val = 0 THEN BitOr(flags, BitAnd(FLAG_Z, BitNot8(FLAG_N)))
              ELSE BitAnd(flags, BitNot8(FLAG_Z))
        f2 == IF Shr(val, 7) = 1 THEN BitOr(f1, FLAG_N)
              ELSE BitAnd(f1, BitNot8(FLAG_N))
    IN  BitOr(f2, \h30)

\* an add_info that counts the repeated line but leaves the engine running
add_info_without_pause(c, msg) ==
    LET c1  == Send(c, [type |-> "Info", msg |-> msg])
        len == Len(c1.info)
    IN  IF c.panic # "none" THEN c
        ELSE IF len > 0 /\ c1.info[len].msg = msg
        THEN [c1 EXCEPT !.info[len] = [msg |-> msg, qty |-> @.qty + 1]]
        ELSE [c1 EXCEPT !.info = Append(@, [msg |-> msg, qty |-> 1])]

\* Computer::add_info
add_info(c, msg) ==
    LET c1  == Send(c, [type |-> "Info", msg |-> msg])
        len == Len(c1.info)
    IN  IF c.panic # "none" THEN c
        ELSE IF len > 0 /\ c1.info[len].msg = msg
        THEN Send([c1 EXCEPT !.info[len] = [msg |-> msg, qty |-> @.qty + 1],
                             !.paused = TRUE],
                  [type |-> "Info", msg |-> <<"Computer paused">>])
        ELSE [c1 EXCEPT !.info = Append(@, [msg |-> msg, qty |-> 1])]

\* if self.log_level > 0 { self.add_info(format!(..)) }
Log(c, msg) == IF c.log_level > 0 THEN add_info(c, msg) ELSE c

---------------------------------------------------------------------------
(* The instruction handlers of Computer, in the order of the source.       *)

\* self.processor.pc.wrapping_add(n) and self.processor.clock.wrapping_add(k)
Advance(c, n, k) ==
    [c EXCEPT !.processor.pc = W16(@ + n), !.processor.clock = @ + k]

\* 0x100 + sp, for the stack pointer moved by d (wrapping in u8)
StackAddr(c, d) == W8(c.processor.sp + 256 + d) + \h100

cld(c) ==
    LET c1 == Log(c, <<"cld", c.processor.pc, Peek(c, c.processor.pc)>>)
    IN  [Advance(c1, 1, 2) EXCEPT !.processor.flags = BitAnd(@, BitNot8(FLAG_D))]

txs(c) ==
    LET c1 == Log(c, <<"txs", c.processor.pc, Peek(c, c.processor.pc)>>)
    IN  [Advance(c1, 1, 2) EXCEPT !.processor.sp = c.processor.rx]

tsx(c) ==
    LET f  == set_flags(c.processor.flags, c.processor.sp)
        c1 == Log(c, <<"tsx", c.processor.pc, Peek(c, c.processor.pc), c.processor.sp, f>>)
    IN  [Advance(c1, 1, 2) EXCEPT !.processor.flags = f,
                                  !.processor.rx = c.processor.sp]

tya(c) ==
    LET c1 == Log(c, <<"tya", c.processor.pc, Peek(c, c.processor.pc)>>)
    IN  [Advance(c1, 1, 2) EXCEPT !.processor.acc = c.processor.ry,
                                  !.processor.flags = set_flags(@, c.processor.ry)]

tay(c) ==
    LET c1 == Log(c, <<"tay", c.processor.pc, Peek(c, c.processor.pc)>>)
    IN  [Advance(c1, 1, 2) EXCEPT !.processor.ry = c.processor.acc,
                                  !.processor.flags = set_flags(@, c.processor.acc)]

tax(c) ==
    LET c1 == Log(c, <<"tax", c.processor.pc, Peek(c, c.processor.pc)>>)
    IN  [Advance(c1, 1, 2) EXCEPT !.processor.rx = c.processor.acc,
                                  !.processor.flags = set_flags(@, c.processor.acc)]

txa(c) ==
    LET c1 == Log(c, <<"txa", c.processor.pc, Peek(c, c.processor.pc)>>)
    IN  [Advance(c1, 1, 2) EXCEPT !.processor.flags = set_flags(@, c.processor.rx),
                                  !.processor.acc = c.processor.rx]

jsr(c) ==
    LET pc      == c.processor.pc
        this_pc == W16(pc + 2)
        c1      == write(c, StackAddr(c, 0), Shr(this_pc, 8) % 256)
        c2      == write(c1, StackAddr(c, -1), this_pc % 256)
        addr    == get_word(c2, W16(pc + 1))
        c3      == Log(addr.c, <<"jsr", pc, addr.v>>)
    IN  IF Overflows(c, pc + 2, 65535) THEN Panic(c, "overflow")
        ELSE [c3 EXCEPT !.processor.sp = W8(@ + 256 - 2),
                        !.processor.clock = @ + 6,
                        !.processor.pc = addr.v]

brk(c) ==
    LET pc      == c.processor.pc
        this_pc == W16(pc + 2)
        c1      == write(c, StackAddr(c, 0), Shr(this_pc, 8) % 256)
        c2      == write(c1, StackAddr(c, -1), this_pc % 256)
        c3      == write(c2, StackAddr(c, -2), BitOr(c.processor.flags, \h30))
        c4      == [c3 EXCEPT !.processor.flags = BitOr(@, FLAG_I),
                              !.processor.sp = W8(@ + 256 - 3)]
        new     == get_word(c4, \hFFFE)
        c5      == Log(new.c, <<"brk", pc, c.processor.inst, new.v, c4.processor.flags>>)
    IN  IF Overflows(c, pc + 2, 65535) THEN Panic(c, "overflow")
        ELSE [c5 EXCEPT !.processor.pc = new.v, !.processor.clock = @ + 7]

rti(c) ==
    LET high == read(c, StackAddr(c, 3))
        low  == read(high.c, StackAddr(c, 2))
        fl   == read(low.c, StackAddr(c, 1))
        addr == BitOr(low.v, high.v * 256)
        c1   == [fl.c EXCEPT !.processor.flags = fl.v]
        c2   == Log(c1, <<"rti", c.processor.pc, addr, fl.v>>)
    IN  [c2 EXCEPT !.processor.sp = W8(@ + 3),
                   !.processor.pc = addr,
                   !.processor.clock = @ + 7]

rts(c) ==
    LET low  == read(c, StackAddr(c, 1))
        high == read(low.c, StackAddr(c, 2))
        addr == BitOr(low.v, high.v * 256)
        c1   == Log(high.c, <<"rts", c.processor.pc, addr>>)
    IN  [c1 EXCEPT !.processor.sp = W8(@ + 2),
                   !.processor.pc = W16(addr + 1),
                   !.processor.clock = @ + 6]

clc(c) ==
    LET c1 == [c EXCEPT !.processor.flags = BitAnd(@, BitNot8(FLAG_C))]
    IN  Advance(Log(c1, <<"clc", c.processor.pc, Peek(c, c.processor.pc)>>), 1, 2)

sec(c) ==
    LET c1 == [c EXCEPT !.processor.flags = BitOr(@, FLAG_C)]
    IN  Advance(Log(c1, <<"sec", c.processor.pc, Peek(c, c.processor.pc)>>), 1, 2)

sed(c) ==
    LET c1 == [c EXCEPT !.processor.flags = BitOr(@, FLAG_D)]
    IN  Advance(Log(c1, <<"sed", c.processor.pc, Peek(c, c.processor.pc)>>), 1, 2)

cli(c) ==
    LET c1 == [c EXCEPT !.processor.flags = BitAnd(@, BitNot8(FLAG_I))]
    IN  Advance(Log(c1, <<"cli", c.processor.pc, Peek(c, c.processor.pc)>>), 1, 2)

sei(c) ==
    LET c1 == [c EXCEPT !.processor.flags = BitOr(@, FLAG_I)]
    IN  Advance(Log(c1, <<"sei", c.processor.pc, Peek(c, c.processor.pc)>>), 1, 2)

clv(c) ==
    LET c1 == [c EXCEPT !.processor.flags = BitAnd(@, BitNot8(FLAG_O))]
    IN  Advance(Log(c1, <<"clv", c.processor.pc, Peek(c, c.processor.pc)>>), 1, 2)

\* the body shared by pha, phx, phy and php: write the value at 0x100 + sp, log
\* (phx and phy log the accumulator, phy under the text of phx), then sp - 1,
\* pc + 1, clock + 3
Push(c, value, tag, shown) ==
    LET addr == StackAddr(c, 0)
        c1   == write(c, addr, value)
        c2   == Log(c1, <<tag, c.processor.pc, addr, shown>>)
    IN  [Advance(c2, 1, 3) EXCEPT !.processor.sp = W8(@ + 256 - 1)]

pha(c) == Push(c, c.processor.acc, "pha", c.processor.acc)

phx(c) == Push(c, c.processor.rx, "phx", c.processor.acc)

phy(c) == Push(c, c.processor.ry, "phx", c.processor.acc)

php(c) == Push(c, BitOr(c.processor.flags, \h30), "php", BitOr(c.processor.flags, \h30))

\* a pull that reads 0x100 + sp before it moves sp
PullBeforeIncrement(c) ==
    [c |-> [read(c, StackAddr(c, 0)).c EXCEPT !.processor.sp = W8(@ + 1)],
     v |-> read(c, StackAddr(c, 0)).v]

\* the first lines shared by pla, plx, ply and plp: sp + 1, then read 0x100 + sp
Pull(c) ==
    LET c1 == [c EXCEPT !.processor.sp = W8(@ + 1)]
    IN  read(c1, StackAddr(c1, 0))

pla(c) ==
    LET r  == Pull(c)
        c1 == [r.c EXCEPT !.processor.acc = r.v,
                          !.processor.flags = set_flags(@, r.v)]
    IN  Advance(Log(c1, <<"pla", c.processor.pc, StackAddr(c, 1), r.v>>), 1, 4)

plx(c) ==
    LET r  == Pull(c)
        c1 == [r.c EXCEPT !.processor.rx = r.v,
                          !.processor.flags = set_flags(@, r.v)]
    IN  Advance(Log(c1, <<"plx", c.processor.pc, StackAddr(c, 1), c.processor.acc>>), 1, 4)

ply(c) ==
    LET r  == Pull(c)
        c1 == [r.c EXCEPT !.processor.ry = r.v,
                          !.processor.flags = set_flags(@, r.v)]
    IN  Advance(Log(c1, <<"ply", c.processor.pc, StackAddr(c, 1), c.processor.acc>>), 1, 4)

plp(c) ==
    LET r  == Pull(c)
        c1 == [r.c EXCEPT !.processor.flags = r.v]
    IN  Advance(Log(c1, <<"plp", c.processor.pc, StackAddr(c, 1), r.v>>), 1, 4)

\* if self.log_level > level { self.add_info(format!(..)) }
LogAbove(c, level, msg) == IF c.log_level > level THEN add_info(c, msg) ELSE c

\* get_ld_adddr, the Absolute, AbsoluteX and AbsoluteY forms: word is
\* self.get_word(self.processor.pc + 1)
AbsoluteAddress(c, addressing_mode, word) ==
    LET index == IF addressing_mode = "AbsoluteX" THEN c.processor.rx
                 ELSE IF addressing_mode = "AbsoluteY" THEN c.processor.ry ELSE 0
        addr  == W16(word.v + index)
    IN  [c |-> IF addressing_mode = "Absolute" THEN word.c
               ELSE LogAbove(word.c, 2, <<addressing_mode, c.processor.pc, word.v, index, addr>>),
         v |-> addr]

\* the zero-page forms with the index added in u16: no wrap at the page end
ZeroPageAddressUnwrapped(c, addressing_mode, byte) ==
    [c |-> byte.c,
     v |-> byte.v + (IF addressing_mode = "ZeroPageX" THEN c.processor.rx
                     ELSE IF addressing_mode = "ZeroPageY" THEN c.processor.ry ELSE 0)]

\* get_ld_adddr, the ZeroPage, ZeroPageX and ZeroPageY forms: byte is
\* self.read(self.processor.pc + 1), the sum wraps in u8
ZeroPageAddress(c, addressing_mode, byte) ==
    LET index == IF addressing_mode = "ZeroPageX" THEN c.processor.rx
                 ELSE IF addressing_mode = "ZeroPageY" THEN c.processor.ry ELSE 0
        addr  == W8(byte.v + index)
        start == W16(c.processor.pc + 1)
    IN  [c |-> LogAbove(byte.c, 2,
                        IF addressing_mode = "ZeroPage"
                        THEN <<addressing_mode, c.processor.pc, start, addr>>
                        ELSE <<addressing_mode, c.processor.pc, start, index, addr>>),
         v |-> addr]

\* get_ld_adddr, the end of the IndirectY, IndirectX and ZeroPageIndirect forms:
\* word is self.get_word(..) of the zero-page pointer, IndirectY adds ry after it
\* (the log line of IndirectX shows ry where it used rx, that of ZeroPageIndirect
\* shows the pointer zp)
IndirectTarget(c, addressing_mode, zp, word) ==
    LET addr == IF addressing_mode = "IndirectY" THEN W16(word.v + c.processor.ry)
                ELSE word.v
    IN  [c |-> LogAbove(word.c, 2,
                        <<addressing_mode, c.processor.pc, W16(c.processor.pc + 1),
                          IF addressing_mode = "ZeroPageIndirect" THEN zp
                          ELSE c.processor.ry, addr>>),
         v |-> addr]

\* get_ld_adddr, the IndirectY, IndirectX and ZeroPageIndirect forms: byte is
\* self.read(self.processor.pc + 1), IndirectX adds rx to it, wrapping in u8
IndirectAddress(c, addressing_mode, byte) ==
    IndirectTarget(c, addressing_mode, byte.v,
                   get_word(byte.c, IF addressing_mode = "IndirectX"
                                    THEN W8(byte.v + c.processor.rx) ELSE byte.v))

\* get_ld_adddr after its first log line
AddressOf(c, addressing_mode) ==
    LET start == W16(c.processor.pc + 1)
    IN  IF addressing_mode = "Accumulator" THEN [c |-> c, v |-> 0]
        ELSE IF addressing_mode \in {"Indirect", "None"}
        THEN [c |-> [add_info(c, <<"unknown addressing mode", addressing_mode,
                                   c.processor.inst>>) EXCEPT !.paused = TRUE],
              v |-> 0]
        ELSE IF Overflows(c, c.processor.pc + 1, 65535)
        THEN [c |-> Panic(c, "overflow"), v |-> 0]
        ELSE IF addressing_mode = "Immediate" THEN [c |-> c, v |-> start]
        ELSE IF addressing_mode \in {"Absolute", "AbsoluteX", "AbsoluteY"}
        THEN AbsoluteAddress(c, addressing_mode, get_word(c, start))
        ELSE IF addressing_mode \in {"ZeroPage", "ZeroPageX", "ZeroPageY"}
        THEN ZeroPageAddress(c, addressing_mode, read(c, start))
        ELSE IndirectAddress(c, addressing_mode, read(c, start))

\* Computer::get_ld_adddr
get_ld_adddr(c, addressing_mode) ==
    AddressOf(LogAbove(c, 3, <<"getting address", c.processor.pc, addressing_mode,
                               c.processor.inst>>),
              addressing_mode)

(* The handlers that take an operand all begin with the same lines,           *)
(*     let addressing_mode = decode::get_adressing_mode(self.processor.inst);  *)
(*     let addr = self.get_ld_adddr(addressing_mode);                          *)
(*     let value = self.read(addr);                                            *)
(* and are written here with the results of these lines as arguments:         *)
(* addressing_mode, addr = get_ld_adddr(c, addressing_mode) and value =       *)
(* read(addr.c, addr.v), each a record of the Computer after the call (c) and *)
(* the value returned (v).  run_instruction supplies them.  A handler that    *)
(* does not read in some mode does not use value in that mode.  get_ld_adddr  *)
(* and read neither use nor change pc, clock, flags or a register, so a       *)
(* handler that moves pc or clock before one of these calls is the same       *)
(* function of the state with the move applied after it.                      *)

\* the body shared by inc (d = 1) and dec (d = 255): value.wrapping_add(1) or
\* value.wrapping_sub(1); in every other mode than the four named the
\* accumulator is the operand and the result is written at addr
IncDec(c, addressing_mode, addr, value, tag, d) ==
    LET zp     == addressing_mode \in {"ZeroPage", "ZeroPageX"}
        abs    == addressing_mode \in {"Absolute", "AbsoluteX"}
        v      == IF zp \/ abs THEN value.v ELSE c.processor.acc
        result == W8(v + d)
        c1     == IF zp THEN Advance(Log(value.c, <<tag, "ZP", c.processor.pc, addr.v, v>>),
                                     2, 2 + 3)
                  ELSE IF abs
                  THEN Advance(Log(value.c, <<tag, "ABS", c.processor.pc, addr.v, v>>), 3,
                               2 + (IF addressing_mode = "AbsoluteX" THEN 5 ELSE 4))
                  ELSE Advance(addr.c, 0, 2)
    IN  [write(c1, addr.v, result) EXCEPT !.processor.flags = set_flags(@, result)]

inc(c, addressing_mode, addr, value) == IncDec(c, addressing_mode, addr, value, "inc", 1)

dec(c, addressing_mode, addr, value) == IncDec(c, addressing_mode, addr, value, "dec", 255)

ldx(c, addressing_mode, addr, value) ==
    LET loaded == addressing_mode \in {"Immediate", "Absolute", "AbsoluteX", "AbsoluteY",
                                       "ZeroPage", "ZeroPageY"}
        v      == IF loaded THEN value.v ELSE 0
        c1     == CASE addressing_mode = "Immediate" ->
                         Advance(Log(value.c, <<"ldx", c.processor.pc, v>>), 2, 2)
                    [] addressing_mode \in {"Absolute", "AbsoluteX", "AbsoluteY"} ->
                         Advance(Log(value.c, <<"ldx absolute", c.processor.pc, addr.v, v>>),
                                 3, 4)
                    [] addressing_mode \in {"ZeroPage", "ZeroPageY"} ->
                         Advance(Log(value.c, <<"ldx ZP", c.processor.pc, addr.v, v>>), 2,
                                 IF addressing_mode = "ZeroPageY" THEN 4 ELSE 3)
                    [] OTHER -> addr.c
    IN  [c1 EXCEPT !.processor.rx = v, !.processor.flags = set_flags(@, v)]

\* the ZeroPage branch of ldy is taken for ZeroPage and ZeroPageX, its extra
\* cycle is for ZeroPageY and never added
ldy(c, addressing_mode, addr, value) ==
    LET loaded == addressing_mode \in {"Immediate", "Absolute", "AbsoluteX", "AbsoluteY",
                                       "ZeroPage", "ZeroPageX"}
        v      == IF loaded THEN value.v ELSE 0
        c1     == CASE addressing_mode = "Immediate" ->
                         Advance(Log(value.c, <<"ldy", c.processor.pc, v>>), 2, 2)
                    [] addressing_mode \in {"Absolute", "AbsoluteX", "AbsoluteY"} ->
                         Advance(Log(value.c, <<"ldy absolute", c.processor.pc, addr.v, v>>),
                                 3, 4)
                    [] addressing_mode \in {"ZeroPage", "ZeroPageX"} ->
                         Advance(Log(value.c, <<"ldy ZP", c.processor.pc, addr.v, v>>), 2, 3)
                    [] OTHER -> addr.c
    IN  [c1 EXCEPT !.processor.ry = v, !.processor.flags = set_flags(@, v)]

\* lda logs after pc has moved; every mode it does not name is panic!(..)
lda(c, addressing_mode, addr, value) ==
    LET len == IF addressing_mode \in {"Absolute", "AbsoluteX", "AbsoluteY"} THEN 3 ELSE 2
        k   == CASE addressing_mode = "Immediate" -> 2
                 [] addressing_mode \in {"Absolute", "AbsoluteX", "AbsoluteY"} -> 4
                 [] addressing_mode \in {"ZeroPage", "ZeroPageX"} -> 3
                 [] addressing_mode \in {"IndirectY", "IndirectX"} -> 5
                 [] OTHER -> 6
    IN  IF addressing_mode \notin {"Immediate", "Absolute", "AbsoluteX", "AbsoluteY",
                                   "ZeroPage", "ZeroPageX", "IndirectY", "IndirectX",
                                   "ZeroPageIndirect"}
        THEN Panic(value.c, "explicit")
        ELSE [Log(Advance(value.c, len, k),
                  <<"lda", W16(c.processor.pc + len), addressing_mode, addr.v, value.v>>)
                EXCEPT !.processor.acc = value.v,
                       !.processor.flags = set_flags(@, value.v)]

\* flags with the bit of mask m set when cond holds and cleared otherwise
SetIf(flags, m, cond) ==
    IF cond THEN BitOr(flags, m) ELSE BitAnd(flags, BitNot8(m))

\* the end of asl, lsr, rol and ror: the result goes to the accumulator in
\* Accumulator mode and is written at addr in every other mode
StoreShifted(c, addressing_mode, addr, result) ==
    IF addressing_mode = "Accumulator" THEN [c EXCEPT !.processor.acc = result]
    ELSE write(c, addr, result)

\* pc and clock of the shifts: 1 byte and 2 cycles in Accumulator mode, 3 bytes
\* and 6 cycles in Absolute and AbsoluteX, else 2 bytes and k cycles
AdvanceShift(c, addressing_mode, k) ==
    IF addressing_mode = "Accumulator" THEN Advance(c, 1, 2)
    ELSE IF addressing_mode \in {"Absolute", "AbsoluteX"} THEN Advance(c, 3, 6)
    ELSE Advance(c, 2, k)

\* asl: Carry from bit 7 of the value, Zero from the value (not the result),
\* Negative from the result
asl(c, addressing_mode, addr, value) ==
    LET v      == IF addressing_mode = "Accumulator" THEN c.processor.acc ELSE value.v
        result == W8(v * 2)
        c1     == Log(IF addressing_mode = "Accumulator" THEN addr.c ELSE value.c,
                      <<"asl", c.processor.pc, addressing_mode, addr.v>>)
    IN  StoreShifted([AdvanceShift(c1, addressing_mode, 6) EXCEPT !.processor.flags =
                         SetIf(SetIf(SetIf(@, FLAG_C, Shr(v, 7) % 2 = 1),
                                     FLAG_Z, v = 0),
                               FLAG_N, Shr(result, 7) % 2 = 1)],
                     addressing_mode, addr.v, result)

\* lsr: Carry from bit 0 of the value, Zero from the value, Negative from the
\* result
lsr(c, addressing_mode, addr, value) ==
    LET v      == IF addressing_mode = "Accumulator" THEN c.processor.acc ELSE value.v
        result == Shr(v, 1)
        flags  == SetIf(SetIf(SetIf(c.processor.flags, FLAG_C, v % 2 = 1),
                              FLAG_Z, v = 0),
                        FLAG_N, Shr(result, 7) % 2 = 1)
        c1     == [(IF addressing_mode = "Accumulator" THEN addr.c ELSE value.c)
                     EXCEPT !.processor.flags = flags]
    IN  StoreShifted(AdvanceShift(Log(c1, <<"lsr", c.processor.pc, v, result, flags,
                                            c.processor.flags>>),
                                  addressing_mode, 5),
                     addressing_mode, addr.v, result)

\* rol and ror read the operand only in the modes other than Accumulator,
\* Absolute and AbsoluteX: in these three the value is the accumulator (and in
\* the two absolute modes the result is still written at addr)
RotateOperand(c, addressing_mode, addr, value) ==
    IF addressing_mode \in {"Accumulator", "Absolute", "AbsoluteX"}
    THEN [c |-> addr.c, v |-> c.processor.acc]
    ELSE value

\* the log line of rol and ror, written after pc has moved
LogRotated(c, shown) == Log(c, <<c.processor.pc>> \o shown)

\* the part of rol and ror after the result is known: carry_out is the bit
\* shifted out
Rotated(c, r, addressing_mode, addr, tag, result, carry_out) ==
    LET flags == SetIf(SetIf(SetIf(c.processor.flags, FLAG_C, carry_out),
                             FLAG_Z, result = 0),
                       FLAG_N, Shr(result, 7) % 2 = 1)
    IN  StoreShifted(LogRotated([AdvanceShift(r.c, addressing_mode, 6)
                                   EXCEPT !.processor.flags = flags],
                                <<tag, r.v, result, flags, c.processor.flags>>),
                     addressing_mode, addr.v, result)

RolOf(c, r, addressing_mode, addr) ==
    Rotated(c, r, addressing_mode, addr, "rol",
            BitOr(W8(r.v * 2), BitAnd(c.processor.flags, FLAG_C)),
            Shr(r.v, 7) % 2 = 1)

rol(c, addressing_mode, addr, value) ==
    RolOf(c, RotateOperand(c, addressing_mode, addr, value), addressing_mode, addr)

RorOf(c, r, addressing_mode, addr) ==
    Rotated(c, r, addressing_mode, addr, "ror",
            BitOr(Shr(r.v, 1), BitAnd(c.processor.flags, FLAG_C) * 128),
            r.v % 2 = 1)

ror(c, addressing_mode, addr, value) ==
    RorOf(c, RotateOperand(c, addressing_mode, addr, value), addressing_mode, addr)

\* bit: Zero from acc & value, Negative and Overflow are bits 7 and 6 of the
\* value; every mode it does not name is panic!(..)
bit(c, addressing_mode, addr, value) ==
    LET result == BitAnd(c.processor.acc, value.v)
        c1     == Log(value.c, <<"bit", c.processor.pc, value.v, result>>)
    IN  IF addressing_mode \notin {"ZeroPage", "Immediate", "ZeroPageX", "Absolute",
                                   "AbsoluteX"}
        THEN Panic(c1, "explicit")
        ELSE [Advance(c1, IF addressing_mode \in {"Absolute", "AbsoluteX"} THEN 3 ELSE 2,
                          IF addressing_mode \in {"Absolute", "AbsoluteX"} THEN 4 ELSE 3)
                EXCEPT !.processor.flags =
                         SetIf(SetIf(SetIf(@, FLAG_Z, result = 0),
                                     FLAG_N, Shr(value.v, 7) % 2 = 1),
                               FLAG_O, Shr(value.v, 6) % 2 = 1)]
\* the body shared by inx, iny, dex and dey
Bump(c, reg, value, msg) ==
    LET f  == set_flags(c.processor.flags, value)
        c1 == [c EXCEPT !.processor[reg] = value, !.processor.flags = f]
    IN  Advance(Log(c1, msg), 1, 2)

inx(c) ==
    LET v == W8(c.processor.rx + 1)
    IN  Bump(c, "rx", v, <<"inx", c.processor.pc, v, set_flags(c.processor.flags, v)>>)

iny(c) ==
    LET v == W8(c.processor.ry + 1)
    IN  Bump(c, "ry", v, <<"iny", c.processor.pc, v, set_flags(c.processor.flags, v)>>)

dex(c) ==
    LET v == W8(c.processor.rx + 255)
    IN  Bump(c, "rx", v, <<"dex", c.processor.pc, v, set_flags(c.processor.flags, v)>>)

dey(c) ==
    LET v == W8(c.processor.ry + 255)
    IN  Bump(c, "ry", v, <<"dey", c.processor.pc, Peek(c, c.processor.pc), v>>)

\* the three-way comparison of cmp, cpx and cpy
CompareFlags(flags, reg, value) ==
    IF reg = value
    THEN BitAnd(BitOr(flags, BitOr(FLAG_Z, FLAG_C)), BitNot8(FLAG_N))
    ELSE IF reg > value
    THEN BitAnd(BitOr(flags, FLAG_C), BitNot8(BitOr(FLAG_N, FLAG_Z)))
    ELSE BitAnd(BitOr(flags, FLAG_N), BitNot8(BitOr(FLAG_C, FLAG_Z)))

\* cmp computes pc + 2 (and + 1 more in the absolute modes) with the checked
\* operators, before and after the operand is read
cmp(c, addressing_mode, addr, value) ==
    LET pc    == c.processor.pc
        next  == IF addressing_mode \in {"Absolute", "AbsoluteY", "AbsoluteX"}
                 THEN pc + 3 ELSE pc + 2
        flags == CompareFlags(c.processor.flags, c.processor.acc, value.v)
    IN  IF Overflows(c, pc + 2, 65535) THEN Panic(c, "overflow")
        ELSE IF Overflows(c, next, 65535) THEN Panic(value.c, "overflow")
        ELSE [Log(value.c, <<"cmp", pc, Peek(value.c, pc), c.processor.acc, value.v, flags>>)
                EXCEPT !.processor.flags = flags,
                       !.processor.pc = W16(next),
                       !.processor.clock = @ + 4]

\* the body shared by cpy and cpx: every mode but Immediate, Absolute and
\* ZeroPage is panic!(..), before anything is read
CompareIndex(c, addressing_mode, addr, value, tag, reg) ==
    LET flags == CompareFlags(c.processor.flags, reg, value.v)
    IN  IF addressing_mode \notin {"Immediate", "Absolute", "ZeroPage"}
        THEN Panic(addr.c, "explicit")
        ELSE [Log(value.c, <<tag, c.processor.pc, reg, value.v, flags>>)
                EXCEPT !.processor.flags = flags,
                       !.processor.pc = IF addressing_mode = "Absolute" THEN W16(@ + 3)
                                        ELSE W16(@ + 2),
                       !.processor.clock = @ + 4]

cpy(c, addressing_mode, addr, value) ==
    CompareIndex(c, addressing_mode, addr, value, "cpy", c.processor.ry)

cpx(c, addressing_mode, addr, value) ==
    CompareIndex(c, addressing_mode, addr, value, "cpx", c.processor.rx)

\* sta adds the length to pc with the checked operator, before the write
sta(c, addressing_mode, addr) ==
    LET abs  == addressing_mode \in {"Absolute", "AbsoluteX", "AbsoluteY"}
        zp   == addressing_mode \in {"ZeroPage", "ZeroPageX", "ZeroPageY", "ZeroPageIndirect"}
        ind  == addressing_mode \in {"IndirectY", "IndirectX"}
        next == IF abs THEN c.processor.pc + 3 ELSE c.processor.pc + 2
        c1   == Log(addr.c, <<"sta", IF abs THEN "ABS" ELSE IF zp THEN "ZP" ELSE "Indirect",
                              c.processor.pc, addr.v, c.processor.acc>>)
    IN  IF ~(abs \/ zp \/ ind) THEN Panic(addr.c, "explicit")
        ELSE IF Overflows(c, next, 65535) THEN Panic(c1, "overflow")
        ELSE [write(c1, addr.v, c.processor.acc)
                EXCEPT !.processor.pc = W16(next), !.processor.clock = @ + 5]

\* stz adds the length to pc before it resolves the address; a mode it does not
\* name leaves pc where it is
stz(c, addressing_mode, addr) ==
    LET next == IF addressing_mode \in {"ZeroPageX", "ZeroPage"} THEN c.processor.pc + 2
                ELSE IF addressing_mode \in {"Absolute", "AbsoluteX"} THEN c.processor.pc + 3
                ELSE c.processor.pc
    IN  IF Overflows(c, next, 65535) THEN Panic(c, "overflow")
        ELSE [write(addr.c, addr.v, 0)
                EXCEPT !.processor.pc = W16(next), !.processor.clock = @ + 4]

\* the body shared by stx and sty (both log rx): the write comes before the
\* checked addition to pc
StoreIndex(c, addressing_mode, addr, tag, value, zp_modes) ==
    LET len == IF addressing_mode = "Absolute" THEN 3 ELSE 2
        c1  == write(IF addressing_mode = "Absolute"
                     THEN Log(addr.c, <<tag, "ABS", c.processor.pc, addr.v, c.processor.rx>>)
                     ELSE IF addressing_mode \in zp_modes
                     THEN Log(addr.c, <<tag, "ZP", c.processor.pc, addr.v, c.processor.rx>>)
                     ELSE addr.c,
                     addr.v, value)
    IN  IF Overflows(c, c.processor.pc + len, 65535) THEN Panic(c1, "overflow")
        ELSE [c1 EXCEPT !.processor.pc = W16(c.processor.pc + len),
                        !.processor.clock = @ + 4]

stx(c, addressing_mode, addr) ==
    StoreIndex(c, addressing_mode, addr, "stx", c.processor.rx, {"ZeroPage", "ZeroPageY"})

sty(c, addressing_mode, addr) ==
    StoreIndex(c, addressing_mode, addr, "sty", c.processor.ry, {"ZeroPage", "ZeroPageX"})

\* the end of jmp: value is the word jumped to, k the cycles of the mode
Jumped(c, value, k) ==
    [Log([value.c EXCEPT !.processor.clock = @ + k + 5],
         <<"jmp", c.processor.pc, Peek(value.c, c.processor.pc), value.v>>)
       EXCEPT !.processor.pc = value.v]

\* jmp in the Indirect and IndirectX modes: addr is self.get_word(start), and
\* IndirectX adds rx to it, wrapping
JumpThrough(c, addressing_mode, addr) ==
    Jumped(c,
           get_word(addr.c, IF addressing_mode = "Indirect" THEN addr.v
                            ELSE W16(addr.v + c.processor.rx)),
           IF addressing_mode = "Indirect" THEN 3 ELSE 6)

\* every mode jmp does not name is panic!(..); pc + 1 is a checked addition
jmp(c, addressing_mode) ==
    IF addressing_mode \notin {"Absolute", "Indirect", "IndirectX"}
    THEN Panic(c, "explicit")
    ELSE IF Overflows(c, c.processor.pc + 1, 65535) THEN Panic(c, "overflow")
    ELSE IF addressing_mode = "Absolute"
    THEN Jumped(c, get_word(c, W16(c.processor.pc + 1)), 5)
    ELSE JumpThrough(c, addressing_mode, get_word(c, W16(c.processor.pc + 1)))

(* The relative branches all begin with                                      *)
(*     let offset = self.read(self.processor.pc + 1);                         *)
(* and are written with its result as the argument offset, which              *)
(* run_instruction supplies.                                                  *)

\* the body shared by the relative branches: pc + 2 (checked: written pc + 2;
\* not checked: written pc.wrapping_add(2)), plus the offset as i8 when the
\* branch is taken; clock + 3
Branch(c, offset, taken, checked, tag, log_taken, log_not_taken) ==
    LET pc   == c.processor.pc
        next == W16(pc + 2)
        new  == IF taken THEN AsU16(next + AsI8(offset.v)) ELSE next
    IN  IF Overflows(c, pc + 1, 65535) THEN Panic(c, "overflow")
        ELSE IF checked /\ Overflows(c, pc + 2, 65535) THEN Panic(offset.c, "overflow")
        ELSE [(IF (IF taken THEN log_taken ELSE log_not_taken)
               THEN Log(offset.c, <<tag, taken, pc, Peek(offset.c, pc), new,
                                    c.processor.flags, offset.v>>)
               ELSE offset.c)
                EXCEPT !.processor.pc = new, !.processor.clock = @ + 3]

bne(c, offset) ==
    Branch(c, offset, Shr(c.processor.flags, 1) % 2 = 0, FALSE, "bne", TRUE, TRUE)

beq(c, offset) ==
    Branch(c, offset, BitAnd(c.processor.flags, FLAG_Z) # 0, FALSE, "beq", TRUE, TRUE)

bcc(c, offset) ==
    Branch(c, offset, BitAnd(c.processor.flags, FLAG_C) = 0, TRUE, "bcc", TRUE, TRUE)

bcs(c, offset) ==
    Branch(c, offset, BitAnd(c.processor.flags, FLAG_C) = 1, TRUE, "bcs", TRUE, FALSE)

bvc(c, offset) ==
    Branch(c, offset, BitAnd(c.processor.flags, FLAG_O) = 0, FALSE, "bvc", TRUE, TRUE)

bvs(c, offset) ==
    Branch(c, offset, BitAnd(c.processor.flags, FLAG_O) # 0, FALSE, "bvs", TRUE, TRUE)

bpl(c, offset) ==
    Branch(c, offset, Shr(c.processor.flags, 7) % 2 = 0, TRUE, "bpl", FALSE, FALSE)

bra(c, offset) == Branch(c, offset, TRUE, TRUE, "bra", FALSE, FALSE)

bmi(c, offset) ==
    Branch(c, offset, Shr(c.processor.flags, 7) % 2 = 1, TRUE, "bmi", FALSE, FALSE)

\* the end of bbs and bbr: offset, and the byte val read at the zero-page
\* address
BitBranchOn(c, offset, val, num, set, signed) ==
    LET next  == W16(c.processor.pc + 3)
        taken == Shr(val.v, num) % 2 = set
    IN  IF Overflows(c, c.processor.pc + 3, 65535) THEN Panic(val.c, "overflow")
        ELSE [val.c EXCEPT !.processor.pc =
                               IF taken
                               THEN AsU16(next + (IF signed THEN AsI8(offset.v)
                                                  ELSE offset.v))
                               ELSE next,
                           !.processor.clock = @ + 4]

\* zpa is self.read(self.processor.pc + 1)
BitBranchAt(c, offset, zpa, num, set, signed) ==
    BitBranchOn(c, offset, read(zpa.c, zpa.v), num, set, signed)

\* offset is self.read(self.processor.pc + 2)
BitBranchFrom(c, offset, num, set, signed) ==
    BitBranchAt(c, offset, read(offset.c, W16(c.processor.pc + 1)), num, set, signed)

\* the body shared by bbs (set = 1, offset as i8) and bbr (set = 0, offset as i32
\* of the u8: not sign-extended)
BitBranch(c, num, set, signed) ==
    IF Overflows(c, c.processor.pc + 2, 65535) THEN Panic(c, "overflow")
    ELSE BitBranchFrom(c, read(c, W16(c.processor.pc + 2)), num, set, signed)

bbs(c, num) == BitBranch(c, num, 1, TRUE)

bbr(c, num) == BitBranch(c, num, 0, FALSE)

\* Computer::get_logical_op_value: the operand read at the resolved address
get_logical_op_value(c, addressing_mode) ==
    LET addr == get_ld_adddr(c, addressing_mode)
    IN  read(addr.c, addr.v)

\* Computer::after_logical_op: a mode it does not name gets a message and
\* neither pc nor clock moves
after_logical_op(c, addressing_mode) ==
    CASE addressing_mode = "Immediate" -> Advance(c, 2, 2)
      [] addressing_mode \in {"ZeroPage", "ZeroPageX"} -> Advance(c, 2, 3)
      [] addressing_mode \in {"IndirectX", "IndirectY"} -> Advance(c, 2, 6)
      [] addressing_mode \in {"Absolute", "AbsoluteX", "AbsoluteY"} -> Advance(c, 3, 4)
      [] OTHER -> add_info(c, <<"this addressing mode not implemented for instruction",
                                c.processor.pc, addressing_mode>>)

\* the body shared by and, eor and ora: value is self.get_logical_op_value()
Logical(c, addressing_mode, value, tag, result_of(_, _)) ==
    LET result == result_of(c.processor.acc, value.v)
        flags  == set_flags(c.processor.flags, result)
    IN  after_logical_op(
            [Log([value.c EXCEPT !.processor.flags = flags],
                 <<tag, c.processor.pc, c.processor.inst, c.processor.acc,
                   value.v, result, flags>>)
               EXCEPT !.processor.acc = result],
            addressing_mode)

and(c, addressing_mode, value) == Logical(c, addressing_mode, value, "and", BitAnd)

eor(c, addressing_mode, value) == Logical(c, addressing_mode, value, "eor", BitXor)

ora(c, addressing_mode, value) == Logical(c, addressing_mode, value, "ora", BitOr)

\* do_add once the sum is known: s is the sum in u16, sum the wrapped sum
AddFlags(flags, acc, val, s, sum) ==
    SetIf(SetIf(set_flags(flags, sum), FLAG_C, s > 255),
          FLAG_O, BitAnd(BitAnd(BitXor(acc, sum), BitXor(val, sum)), \h80) # 0)

\* do_add with Overflow taken from the carry out of bit 7
do_add_with_unsigned_overflow(flags, acc, val) ==
    [flags |-> SetIf(SetIf(set_flags(flags, W8(W8(acc + val) + BitAnd(flags, FLAG_C))),
                           FLAG_C, acc + val + BitAnd(flags, FLAG_C) > 255),
                     FLAG_O, acc + val + BitAnd(flags, FLAG_C) > 255),
     sum   |-> W8(W8(acc + val) + BitAnd(flags, FLAG_C))]

\* do_add without the line that adds the carry bit to the sum
do_add_without_carry(flags, acc, val) ==
    [flags |-> AddFlags(flags, acc, val, acc + val + BitAnd(flags, FLAG_C),
                        W8(acc + val)),
     sum   |-> W8(acc + val)]

\* Computer::do_add: the flags it leaves, and the sum it returns
do_add(flags, acc, val) ==
    [flags |-> AddFlags(flags, acc, val, acc + val + BitAnd(flags, FLAG_C),
                        W8(W8(acc + val) + BitAnd(flags, FLAG_C))),
     sum   |-> W8(W8(acc + val) + BitAnd(flags, FLAG_C))]

\* the decimal branch of adc once s = hn + ln is known
AdcDecimalOf(flags, s) ==
    LET fC  == SetIf(flags, FLAG_C, s >= 160)
        sum == (IF s >= 160 THEN s + \h60 ELSE s) % 256
    IN  [flags |-> set_flags(IF BitAnd(flags, FLAG_O) # 0
                                /\ (IF s >= 160 THEN s >= \h180 ELSE s < \h80)
                             THEN BitAnd(fC, BitNot8(FLAG_O)) ELSE fC,
                             sum),
         sum |-> sum]

\* the low nibble of the decimal adc without its decimal adjustment
AdcLowNibbleUnadjusted(ln) == ln

\* the low nibble of the decimal adc, with its decimal adjustment
AdcLowNibble(ln) == IF ln > 9 THEN BitOr(\h10, (ln + 6) % 16) ELSE ln

\* the decimal branch of adc: the flags it leaves and the sum
AdcDecimal(flags, acc, val) ==
    AdcDecimalOf(flags,
                 (acc - (acc % 16)) + (val - (val % 16))
                 + AdcLowNibble((acc % 16) + (val % 16) + BitAnd(flags, FLAG_C)))

\* the end of adc and sbc: r holds the flags and the sum
Added(c, addressing_mode, value, r, shown) ==
    after_logical_op(
        [Log([value.c EXCEPT !.processor.flags = r.flags], shown \o <<r.flags, r.sum>>)
           EXCEPT !.processor.acc = r.sum],
        addressing_mode)

adc(c, addressing_mode, value) ==
    Added(c, addressing_mode, value,
          IF BitAnd(c.processor.flags, FLAG_D) # 0
          THEN AdcDecimal(c.processor.flags, c.processor.acc, value.v)
          ELSE do_add(c.processor.flags, c.processor.acc, value.v),
          <<"adc", c.processor.pc, c.processor.acc, value.v,
            BitAnd(c.processor.flags, FLAG_C) # 0>>)

\* the decimal branch of sbc once tmp and w are known, before their
\* adjustments: the flags, the sum, and whether a subtraction went below zero in
\* u8 or u16 (tmp -= 6, w -= 0x60) or the last addition above 0xFFFF
SbcDecimalOf(flags, tmp0, w1) ==
    LET tmp1 == IF tmp0 < \h10 THEN tmp0 - 6 ELSE tmp0 - \h10
        w2   == IF w1 < \h100 THEN w1 - \h60 ELSE w1
        w3   == ((w2 + 65536) % 65536) + ((tmp1 + 256) % 256)
        fC   == SetIf(flags, FLAG_C, ~(w1 < \h100))
    IN  [flags |-> IF BitAnd(flags, FLAG_O) # 0
                      /\ (IF w1 < \h100 THEN w1 < \h80 ELSE w1 >= \h180)
                   THEN BitAnd(fC, BitNot8(FLAG_O)) ELSE fC,
         sum |-> w3 % 256,
         wrapped |-> tmp1 < 0 \/ w2 < 0 \/ w3 > 65535]

\* tmp without the carry-in
SbcTmpWithoutCarry(flags, acc, val) == \h0F + (acc % 16) - (val % 16)

\* let mut tmp = 0xf + (acc & 0xf) - (val & 0xf) + (flags & FLAG_C), before
\* the adjustment
SbcTmp(flags, acc, val) == \h0F + (acc % 16) - (val % 16) + BitAnd(flags, FLAG_C)

\* the decimal branch of sbc
SbcDecimal(flags, acc, val) ==
    SbcDecimalOf(flags, SbcTmp(flags, acc, val),
                 (IF SbcTmp(flags, acc, val) < \h10 THEN 0 ELSE \h10)
                 + \hF0 + (acc - (acc % 16)) - (val - (val % 16)))

\* sbc once its sum is known: the wrapped subtractions of the decimal branch
\* are a panic under overflow checks
Subtracted(c, addressing_mode, value, r) ==
    IF BitAnd(c.processor.flags, FLAG_D) # 0 /\ c.overflow_checks /\ r.wrapped
    THEN Panic(value.c, "overflow")
    ELSE Added(c, addressing_mode, value, r,
               <<"sbc", c.processor.pc, c.processor.acc, value.v>>)

sbc(c, addressing_mode, value) ==
    Subtracted(c, addressing_mode, value,
               IF BitAnd(c.processor.flags, FLAG_D) # 0
               THEN SbcDecimal(c.processor.flags, c.processor.acc, value.v)
               ELSE do_add(c.processor.flags, c.processor.acc, BitNot8(value.v)))

nop(c) ==
    LET c1 == Log(c, <<"nop", c.processor.pc, Peek(c, c.processor.pc)>>)
    IN  Advance(IF c.processor.inst # \hEA /\ c.log_level > 1
                THEN [c1 EXCEPT !.speed = 10] ELSE c1,
                1, 2)

---------------------------------------------------------------------------
(* Fetch, decode, dispatch: Computer::run_instruction, reset and step.     *)

\* the digit that ends the mnemonics BBS0..BBS7 and BBR0..BBR7, which the match
\* hands to bbs and bbr
BitNumber(opcode) ==
    CASE opcode \in {"BBS0", "BBR0"} -> 0
      [] opcode \in {"BBS1", "BBR1"} -> 1
      [] opcode \in {"BBS2", "BBR2"} -> 2
      [] opcode \in {"BBS3", "BBR3"} -> 3
      [] opcode \in {"BBS4", "BBR4"} -> 4
      [] opcode \in {"BBS5", "BBR5"} -> 5
      [] opcode \in {"BBS6", "BBR6"} -> 6
      [] OTHER -> 7

\* the match on the mnemonic in run_instruction.  addressing_mode, addr, value
\* and offset are the results of the first calls of the handlers that make them:
\* get_adressing_mode(inst), get_ld_adddr(addressing_mode), read(addr) and
\* read(pc + 1)
Dispatch(c, opcode, addressing_mode, addr, value, offset) ==
    CASE opcode = "ADC" -> adc(c, addressing_mode, value)
      [] opcode = "AND" -> and(c, addressing_mode, value)
      [] opcode = "ASL" -> asl(c, addressing_mode, addr, value)
      [] opcode = "BCC" -> bcc(c, offset)
      [] opcode = "BCS" -> bcs(c, offset)
      [] opcode = "BEQ" -> beq(c, offset)
      [] opcode = "BIT" -> bit(c, addressing_mode, addr, value)
      [] opcode = "BMI" -> bmi(c, offset)
      [] opcode = "BNE" -> bne(c, offset)
      [] opcode = "BPL" -> bpl(c, offset)
      [] opcode = "BRA" -> bra(c, offset)
      [] opcode = "BRK" -> brk(c)
      [] opcode = "BVC" -> bvc(c, offset)
      [] opcode = "BVS" -> bvs(c, offset)
      [] opcode = "CLC" -> clc(c)
      [] opcode = "CLD" -> cld(c)
      [] opcode = "CLI" -> cli(c)
      [] opcode = "CLV" -> clv(c)
      [] opcode = "CMP" -> cmp(c, addressing_mode, addr, value)
      [] opcode = "CPX" -> cpx(c, addressing_mode, addr, value)
      [] opcode = "CPY" -> cpy(c, addressing_mode, addr, value)
      [] opcode = "DEC" -> dec(c, addressing_mode, addr, value)
      [] opcode = "DEX" -> dex(c)
      [] opcode = "DEY" -> dey(c)
      [] opcode = "EOR" -> eor(c, addressing_mode, value)
      [] opcode = "INC" -> inc(c, addressing_mode, addr, value)
      [] opcode = "INX" -> inx(c)
      [] opcode = "INY" -> iny(c)
      [] opcode = "JMP" -> jmp(c, addressing_mode)
      [] opcode = "JSR" -> jsr(c)
      [] opcode = "LDA" -> lda(c, addressing_mode, addr, value)
      [] opcode = "LDX" -> ldx(c, addressing_mode, addr, value)
      [] opcode = "LDY" -> ldy(c, addressing_mode, addr, value)
      [] opcode = "LSR" -> lsr(c, addressing_mode, addr, value)
      [] opcode = "NOP" -> nop(c)
      [] opcode = "ORA" -> ora(c, addressing_mode, value)
      [] opcode = "PHA" -> pha(c)
      [] opcode = "PHX" -> phx(c)
      [] opcode = "PHY" -> phy(c)
      [] opcode = "PHP" -> php(c)
      [] opcode = "PLA" -> pla(c)
      [] opcode = "PLX" -> plx(c)
      [] opcode = "PLY" -> ply(c)
      [] opcode = "PLP" -> plp(c)
      [] opcode = "ROL" -> rol(c, addressing_mode, addr, value)
      [] opcode = "ROR" -> ror(c, addressing_mode, addr, value)
      [] opcode = "RTI" -> rti(c)
      [] opcode = "RTS" -> rts(c)
      [] opcode = "SBC" -> sbc(c, addressing_mode, value)
      [] opcode = "SEC" -> sec(c)
      [] opcode = "SED" -> sed(c)
      [] opcode = "SEI" -> sei(c)
      [] opcode = "STA" -> sta(c, addressing_mode, addr)
      [] opcode = "STX" -> stx(c, addressing_mode, addr)
      [] opcode = "STY" -> sty(c, addressing_mode, addr)
      [] opcode = "TAX" -> tax(c)
      [] opcode = "TAY" -> tay(c)
      [] opcode = "TSX" -> tsx(c)
      [] opcode = "TXA" -> txa(c)
      [] opcode = "TXS" -> txs(c)
      [] opcode = "TYA" -> tya(c)
      [] opcode \in {"BBS0", "BBS1", "BBS2", "BBS3", "BBS4", "BBS5", "BBS6", "BBS7"} ->
           bbs(c, BitNumber(opcode))
      [] opcode \in {"BBR0", "BBR1", "BBR2", "BBR3", "BBR4", "BBR5", "BBR6", "BBR7"} ->
           bbr(c, BitNumber(opcode))
      [] opcode = "STZ" -> stz(c, addressing_mode, addr)
      [] opcode = "NOP2" -> nop(nop(c))
      [] opcode = "NOP3" -> nop(nop(nop(c)))
      [] OTHER -> nop(c)


\* run_instruction with the operand address resolved
Resolved(c, opcode, addressing_mode, addr) ==
    Dispatch(c, opcode, addressing_mode, addr, read(addr.c, addr.v),
             read(c, W16(c.processor.pc + 1)))

\* run_instruction with the instruction decoded
Decoded(c, opcode, addressing_mode) ==
    Resolved(c, opcode, addressing_mode, get_ld_adddr(c, addressing_mode))

\* run_instruction with the opcode byte fetched: self.processor.inst = inst
Fetched(inst) ==
    Decoded([inst.c EXCEPT !.processor.inst = inst.v],
            get_opcode_name(inst.v), get_adressing_mode(inst.v))

\* Computer::run_instruction
run_instruction(c) == Fetched(read(c, c.processor.pc))

\* a reset that leaves the engine paused
reset_left_paused(c) ==
    LET c1 == [c EXCEPT !.paused = TRUE, !.lba = 0, !.processor.clock = 0,
                        !.disk_cnt = 0, !.command = "None"]
        w  == get_word(c1, \hFFFC)
    IN  [w.c EXCEPT !.processor.pc = w.v]

\* Computer::reset
reset(c) ==
    LET c1 == [c EXCEPT !.paused = TRUE, !.lba = 0, !.processor.clock = 0,
                        !.disk_cnt = 0, !.command = "None"]
        w  == get_word(c1, \hFFFC)
    IN  [w.c EXCEPT !.processor.pc = w.v, !.paused = FALSE]

\* one arm of the match on a ControllerMessage in step
HandleMessage(c, message) ==
    CASE message.type = "GetMemory" -> Send(c, [type |-> "Memory", data |-> c.data])
      [] message.type = "GetProc" -> Send(c, [type |-> "Processor", processor |-> c.processor])
      [] message.type = "Reset" -> reset(c)
      [] message.type = "SendChar" ->
           [c EXCEPT !.data = Poke(Poke(@, \hFFE0, message.c), \hFFE1, \h08)]
      [] OTHER -> c

\* while let Some(message) = self.rx.try_iter().next() { .. }
RECURSIVE Drain(_)
Drain(c) ==
    IF c.rx = <<>> \/ c.panic # "none" THEN c
    ELSE Drain(HandleMessage([c EXCEPT !.rx = Tail(@)], Head(c.rx)))

\* a step that runs the instruction before it takes the messages
step_draining_last(c) ==
    IF c.paused /\ ~c.step THEN Drain(c)
    ELSE Drain(run_instruction([c EXCEPT !.step = FALSE]))

\* a step that runs the instruction whether the engine is paused or not
step_ignoring_pause(c) ==
    run_instruction([Drain(c) EXCEPT !.step = FALSE])

\* a step that handles its messages when the instruction has moved pc on and
\* done nothing else yet
step_answering_midway(c) ==
    IF Drain(c).paused /\ ~Drain(c).step THEN Drain(c)
    ELSE LET done == run_instruction([Drain(c) EXCEPT !.step = FALSE])
             half == Drain([c EXCEPT !.processor.pc = done.processor.pc])
         IN  [done EXCEPT !.tx = half.tx]

\* Computer::step
step(c) ==
    LET c1 == Drain(c)
    IN  IF c1.paused /\ ~c1.step THEN c1
        ELSE run_instruction([c1 EXCEPT !.step = FALSE])

\* Computer::new, for a 64KB image (the ROM with the zero-filled RAM below it,
\* as its non-zero bytes) and a disk image
new(image, disk_image, checks) ==
    [log_level |-> 0, data |-> image, disk |-> disk_image, lba |-> 0, disk_cnt |-> 0,
     command |-> "None", tx |-> <<>>, rx |-> <<>>, paused |-> FALSE, step |-> FALSE,
     speed |-> 0, info |-> <<>>,
     processor |-> [flags |-> \h30, acc |-> 0, rx |-> 0, ry |-> 0, pc |-> \h400,
                    sp |-> 0, clock |-> 0, inst |-> \hEA],
     panic |-> "none", overflow_checks |-> checks]

---------------------------------------------------------------------------
(* The timer card, src/src/computer/via.rs.  A Via is a record v; tick and *)
(* write give the Via after the call, read a record [v, r] with the value  *)
(* returned.                                                               *)

\* Via::get_interrupt
via_get_interrupt(v) == v.interrupt

\* the test `self.timer1cnt == 1`, which fires one tick early
TimerExpiredEarly(cnt) == cnt = 1

\* self.timer1cnt == 0
TimerExpired(cnt) == cnt = 0

\* a tick that does not reload the counter from the latch
via_tick_without_reload(v) ==
    IF v.timer1cnt > 0
    THEN LET v1 == [v EXCEPT !.interrupt = FALSE, !.timer1cnt = @ - 1]
         IN  IF TimerExpired(v1.timer1cnt) /\ BitAnd(v1.ier, \h40) # 0
             THEN [v1 EXCEPT !.ifr = BitOr(@, \hC0), !.interrupt = TRUE]
             ELSE v1
    ELSE v

\* Via::tick
via_tick(v) ==
    IF v.timer1cnt > 0
    THEN LET v1 == [v EXCEPT !.interrupt = FALSE, !.timer1cnt = @ - 1]
         IN  IF TimerExpired(v1.timer1cnt) /\ BitAnd(v1.ier, \h40) # 0
             THEN [v1 EXCEPT !.ifr = BitOr(@, \hC0), !.interrupt = TRUE,
                             !.timer1cnt = IF BitAnd(v1.acr, \h40) # 0
                                           THEN v1.timer1latch ELSE @]
             ELSE v1
    ELSE v

\* Via::read
via_read(v, reg) ==
    CASE reg = 4 -> [v |-> [v EXCEPT !.interrupt = FALSE, !.ifr = 0],
                     r |-> v.timer1cnt % 256]
      [] reg = 5 -> [v |-> v, r |-> Shr(v.timer1cnt, 8) % 256]
      [] reg = 6 -> [v |-> v, r |-> v.timer1latch % 256]
      [] reg = 7 -> [v |-> v, r |-> Shr(v.timer1latch, 8) % 256]
      [] reg = \h0B -> [v |-> v, r |-> v.acr]
      [] reg = \h0C -> [v |-> v, r |-> v.pcr]
      [] reg = \h0D -> [v |-> v, r |-> v.ifr]
      [] reg = \h0E -> [v |-> v, r |-> v.ier]
      [] OTHER -> [v |-> v, r |-> 0]

\* Via::write
via_write(v, reg, val) ==
    CASE reg = 4 -> [v EXCEPT !.timer1latch = BitOr(@, val)]
      [] reg = 5 ->
           LET latch == BitOr(v.timer1latch, (val * 256) % 65536)
           IN  [v EXCEPT !.timer1latch = latch, !.timer1cnt = latch,
                         !.interrupt = FALSE, !.ifr = 0]
      [] reg = 6 -> [v EXCEPT !.timer1latch = BitOr(@, val)]
      [] reg = 7 -> [v EXCEPT !.interrupt = FALSE, !.ifr = 0,
                              !.timer1latch = BitOr(@, (val * 256) % 65536)]
      [] reg = \h0B -> [v EXCEPT !.acr = val]
      [] reg = \h0C -> [v EXCEPT !.pcr = val]
      [] reg = \h0D -> [v EXCEPT !.ifr = val]
      [] reg = \h0E -> [v EXCEPT !.ier = val]
      [] OTHER -> v

\* no Via is built by the engine thread
NoVia == [interrupt |-> FALSE, timer1cnt |-> 0, timer2cnt |-> 0, timer1latch |-> 0,
          timer2latch |-> 0, ifr |-> 0, ier |-> 0, acr |-> 0, pcr |-> 0]

NoViaCalls == [loaded |-> FALSE, ticks |-> 0]

---------------------------------------------------------------------------
(* The host: the App of src/src/app.rs and the key handler of              *)
(* src/src/handler.rs, on the main thread.  An App is a record a; tick and *)
(* handle_key_events give [a |-> the App after, sent |-> the               *)
(* ControllerMessages sent on app.tx, in order].                           *)

\* the Self { .. } of App::new
AppNew ==
    [running |-> TRUE, current_tab |-> "Main", mem |-> <<>>,
     processor |-> [flags |-> \h30, acc |-> 0, rx |-> 0, ry |-> 0, pc |-> \h400,
                    sp |-> 0, clock |-> 0, inst |-> \hEA],
     log_level |-> 0, debug |-> <<>>, received |-> <<>>, calls |-> 0]

\* one arm of the match on a ComputerMessage in App::tick
Receive(a, message) ==
    LET a1 == [a EXCEPT !.received = Append(@, message)]
    IN  CASE message.type = "Info" ->
               [a1 EXCEPT !.debug = IF Len(@) + 1 > 10 THEN Tail(Append(@, message.msg))
                                    ELSE Append(@, message.msg)]
          [] message.type = "Memory" -> [a1 EXCEPT !.mem = message.data]
          [] message.type = "Processor" -> [a1 EXCEPT !.processor = message.processor]
          [] OTHER -> a1

RECURSIVE ReceiveAll(_, _)
\* while let Some(message) = self.rx.try_iter().next() { .. }
ReceiveAll(a, messages) ==
    IF messages = <<>> THEN a
    ELSE ReceiveAll(Receive(a, Head(messages)), Tail(messages))

\* App::tick, with the ComputerMessages waiting in app.rx
tick(a, waiting) ==
    [a |-> ReceiveAll(a, waiting),
     sent |-> CASE a.current_tab = "Main" -> <<[type |-> "GetProc"]>>
                [] a.current_tab = "Memory" -> <<[type |-> "GetMemory"],
                                                [type |-> "GetProc"]>>
                [] OTHER -> <<>>]

\* a - 1 and a + 1 on a u8, saturating
SaturatingSub(x) == IF x = 0 THEN 0 ELSE x - 1

SaturatingAdd(x) == IF x = 255 THEN 255 ELSE x + 1

\* the message of the keys that send one on the Main tab only
OnMain(a, message) ==
    [a |-> a, sent |-> IF a.current_tab = "Main" THEN <<message>> ELSE <<>>]

\* handle_key_events, for the keys that do more than scroll; key.c is the
\* character of a Char key
handle_key_events(a, key) ==
    CASE key.code = "Esc" -> OnMain(a, [type |-> "SendChar", c |-> \h1B])
      [] key.code = "F1" ->
           [a |-> [a EXCEPT !.current_tab = IF @ = "Help" THEN "Main" ELSE "Help"],
            sent |-> <<>>]
      [] key.code = "F2" -> [a |-> [a EXCEPT !.running = FALSE], sent |-> <<>>]
      [] key.code = "F3" ->
           [a |-> [a EXCEPT !.current_tab = IF @ = "Main" THEN "Memory" ELSE "Main"],
            sent |-> <<>>]
      [] key.code = "F4" ->
           [a |-> a,
            sent |-> IF a.current_tab \in {"Memory", "Main"} THEN <<[type |-> "Reset"]>>
                     ELSE <<>>]
      [] key.code = "F5" ->
           IF a.current_tab = "Main"
           THEN [a |-> [a EXCEPT !.log_level = SaturatingSub(@)],
                 sent |-> <<[type |-> "SetDebug", level |-> SaturatingSub(a.log_level)]>>]
           ELSE [a |-> a, sent |-> <<>>]
      [] key.code = "F6" ->
           IF a.current_tab = "Main"
           THEN [a |-> [a EXCEPT !.log_level = SaturatingAdd(@)],
                 sent |-> <<[type |-> "SetDebug", level |-> SaturatingAdd(a.log_level)]>>]
           ELSE [a |-> a, sent |-> <<>>]
      [] key.code = "F7" -> OnMain(a, [type |-> "TogglePause"])
      [] key.code = "Enter" -> OnMain(a, [type |-> "SendChar", c |-> \h0D])
      [] key.code = "Char" -> OnMain(a, [type |-> "SendChar", c |-> key.c])
      [] key.code = "Backspace" -> OnMain(a, [type |-> "SendChar", c |-> \h08])
      [] OTHER -> [a |-> a, sent |-> <<>>]

---------------------------------------------------------------------------
(* The engine thread of App::new: it builds the Computer, resets it, and   *)
(* then calls step forever.                                                *)

\* the variables hold the Computer c
Is(c) ==
    /\ processor = c.processor /\ data = c.data /\ disk = c.disk /\ lba = c.lba
    /\ disk_cnt = c.disk_cnt /\ command = c.command /\ paused = c.paused
    /\ step_req = c.step /\ speed = c.speed /\ log_level = c.log_level
    /\ info = c.info /\ tx = c.tx /\ rx = c.rx /\ panic = c.panic
    /\ overflow_checks = c.overflow_checks

\* the Computer after a call that ended in c; a call that panicked unwinds: the
\* Computer is dropped with the thread, what was sent on tx stays sent
Becomes(c) ==
    LET after == IF c.panic = "none" THEN c
                 ELSE [Self EXCEPT !.panic = c.panic, !.tx = c.tx]
    IN  /\ processor' = after.processor /\ data' = after.data /\ disk' = after.disk
        /\ lba' = after.lba /\ disk_cnt' = after.disk_cnt /\ command' = after.command
        /\ paused' = after.paused /\ step_req' = after.step /\ speed' = after.speed
        /\ log_level' = after.log_level /\ info' = after.info /\ tx' = after.tx
        /\ rx' = after.rx /\ panic' = after.panic
        /\ overflow_checks' = after.overflow_checks

\* the longest run of the engine that is explored, in clock cycles, without a
\* disk and with one (a sector transfer takes 512 passes of a polling loop)
MaxClock == 32

MaxClockDisk == 9800

Budget(c) == IF Len(c.disk) > 0 THEN MaxClockDisk ELSE MaxClock

\* let mut computer = Computer::new(computer_tx, rx, computer_data, disk_data);
\* for a ROM image and a disk image, in either build
Boot(image, disk_image) ==
    \E checks \in BOOLEAN :
        /\ Is(new(image, disk_image, checks))
        /\ thread = "new"
        /\ via = NoVia /\ via_calls = NoViaCalls
        /\ app = AppNew

\* computer.reset();
Spawn ==
    /\ thread = "new"
    /\ Becomes(reset(Self))
    /\ thread' = "loop"
    /\ UNCHANGED <<via, via_calls, app>>

\* the instruction at pc is a JMP to itself: from here on the engine repeats it
\* and only the clock moves, so the exploration stops here
Spinning(c) ==
    /\ Peek(c, c.processor.pc) = \h4C
    /\ Peek(c, W16(c.processor.pc + 1)) = c.processor.pc % 256
    /\ Peek(c, W16(c.processor.pc + 2)) = c.processor.pc \div 256

\* a step that waits for a message, as rx.recv() would
StepReturnsOnMessage(c) == c.rx # <<>>

\* the call of step returns: rx.try_iter() and tx.send() do not wait, whether
\* or not the other endpoint is there, and thread::sleep ends
StepReturns(c) == TRUE

\* loop { computer.step(); }
Step ==
    /\ thread = "loop"
    /\ panic = "none"
    /\ StepReturns(Self)
    /\ processor.clock < Budget(Self)
    /\ ~Spinning(Self)
    /\ Becomes(step(Self))
    /\ thread' = "loop"
    /\ UNCHANGED <<via, via_calls, app>>

Next == Spawn \/ Step

\* the most events (ticks and keys) the host handles in a run that is explored
MaxHostCalls == 3

\* the ComputerMessages sent that the App has not taken from its rx yet
Waiting == SubSeq(tx, Len(app.received) + 1, Len(tx))

\* the host has handled an event with outcome r: its messages are queued for
\* the engine unless its thread has ended and dropped the receiver
Handled(r) ==
    /\ app' = [r.a EXCEPT !.calls = @ + 1]
    /\ rx' = IF panic = "none" THEN rx \o r.sent ELSE rx
    /\ UNCHANGED <<processor, data, disk, lba, disk_cnt, command, paused, step_req,
                   speed, log_level, info, tx, thread, panic, overflow_checks,
                   via, via_calls>>

\* Event::Tick => app.tick()
HostTick ==
    /\ thread \in {"new", "loop"}
    /\ app.running /\ app.calls < MaxHostCalls
    /\ Handled(tick(app, Waiting))

\* the keys pressed: the function keys, Enter, Esc, Backspace, a letter and a
\* key that only scrolls
Keys ==
    {[code |-> k, c |-> 0] :
        k \in {"Esc", "F1", "F2", "F3", "F4", "F5", "F6", "F7", "Enter", "Backspace",
               "Up"}}
    \cup {[code |-> "Char", c |-> \h41]}

\* Event::Key(key_event) => handle_key_events(key_event, &mut app)
HostKey ==
    /\ thread \in {"new", "loop"}
    /\ app.running /\ app.calls < MaxHostCalls
    /\ \E key \in Keys : Handled(handle_key_events(app, key))

\* F2: app.quit(), after which the main loop ends and the App is dropped
HostQuit ==
    /\ thread \in {"new", "loop"}
    /\ app.running /\ app.calls < MaxHostCalls
    /\ Handled(handle_key_events(app, [code |-> "F2", c |-> 0]))

\* the engine with a host that only ticks, with one that presses keys too, and
\* with one that ticks until it quits
NextServed == Spawn \/ Step \/ HostTick

NextHosted == Spawn \/ Step \/ HostTick \/ HostKey

NextLeaving == Spawn \/ Step \/ HostTick \/ HostQuit

\* the engine thread can make a call of step that returns
EngineCanStep ==
    /\ thread = "loop" /\ panic = "none"
    /\ StepReturns(Self)
    /\ processor.clock < Budget(Self) /\ ~Spinning(Self)

\* weak fairness of Step, written with its enabling condition: the engine
\* thread is scheduled, so a call of step that can be made is made (the steps
\* of the host change app, those of the engine thread do not)
StepIsFair ==
    []<>(~EngineCanStep) \/ []<><<thread = "loop" /\ app' = app>>_vars

---------------------------------------------------------------------------
(* ROM images.  Computer::new places the ROM at the top of the 64KB space, *)
(* over zero-filled RAM, so an image decides every byte the engine starts  *)
(* with; the programs below are the bytes an image holds.                   *)

RECURSIVE Load(_, _, _)
\* the bytes placed from address at on, round the end of the 64KB space
Load(mem, at, bytes) ==
    IF bytes = <<>> THEN mem
    ELSE Load(Poke(mem, at, Head(bytes)), W16(at + 1), Tail(bytes))

Lo(w) == w % 256

Hi(w) == (w \div 256) % 256

\* code at origin, the reset vector (0xFFFC) pointing at it and the BRK vector
\* (0xFFFE) at handler
Rom(origin, code, handler) ==
    Load(Load(<<>>, origin, code), \hFFFC,
         <<Lo(origin), Hi(origin), Lo(handler), Hi(handler)>>)

\* the reset vector of the running image, and the byte k bytes into its code
Origin == Peek(Self, \hFFFC) + 256 * Peek(Self, \hFFFD)

Code(k) == Peek(Self, W16(Origin + k))

NoDisk == <<>>

\* the engine is about to fetch the instruction at pc
Fetching ==
    /\ thread = "loop" /\ panic = "none"
    /\ rx = <<>> /\ (~paused \/ step_req)
    /\ processor.clock < Budget(Self) /\ ~Spinning(Self)

---------------------------------------------------------------------------
(* Every opcode, executed once.                                            *)

OperandPairs == {<<\h10, \h02>>, <<\h80, \h12>>}

InitDecode ==
    \E op \in Byte, b \in OperandPairs :
        Boot(Rom(\h0400, <<op, b[1], b[2]>>, 0), NoDisk)

SpecDecode == InitDecode /\ [][Next]_vars

\* C1: for every opcode byte 0x00..0xFF the decoder returns a mnemonic and an
\* addressing mode, and executing any of them never takes a handler's explicit
\* panic branch (LDA, BIT, CPX, CPY, STA and JMP reject the modes they do not
\* implement): the decoded mode is always one the dispatched handler accepts.
C1_DecodeNeverRejects ==
    /\ \A op \in Byte : /\ get_opcode_name(op) \in STRING
                        /\ get_adressing_mode(op) \in AdressingMode
    /\ panic # "explicit"

\* JMP (abs,X), opcode 0x7C, one of the opcodes the decoder lists before its
\* tables, has been executed by the jmp handler
C1_Witness ==
    /\ Code(0) = \h7C /\ processor.inst = \h7C
    /\ processor.clock = 11 /\ panic = "none"

\* the mnemonics that transfer control
ControlTransfer ==
    {"BCC", "BCS", "BEQ", "BMI", "BNE", "BPL", "BRA", "BVC", "BVS",
     "JMP", "JSR", "RTS", "RTI", "BRK",
     "BBR0", "BBR1", "BBR2", "BBR3", "BBR4", "BBR5", "BBR6", "BBR7",
     "BBS0", "BBS1", "BBS2", "BBS3", "BBS4", "BBS5", "BBS6", "BBS7"}

\* bytes an instruction takes in its addressing mode
EncodedLength(mode) ==
    CASE mode \in {"Accumulator", "None"} -> 1
      [] mode \in {"Absolute", "AbsoluteX", "AbsoluteY", "Indirect"} -> 3
      [] OTHER -> 2

\* C2: executing an opcode that is not a control transfer moves pc forward by
\* the encoded length of its addressing mode (mod 2^16) and increases the clock,
\* INC A / DEC A and the zero-page-indirect ORA/AND/EOR/ADC/SBC included.
C2_AdvancesByLength ==
    [][(Fetching /\ get_opcode_name(read(Self, processor.pc).v) \notin ControlTransfer)
         => /\ processor'.pc =
                 W16(processor.pc
                     + EncodedLength(get_adressing_mode(read(Self, processor.pc).v)))
            /\ processor'.clock > processor.clock]_vars

---------------------------------------------------------------------------
(* Binary SBC then ADC of the same operand.                                *)
(*   0800  CLC or SEC     0801  LDA #a     0803  SBC #b     0805  ADC #b   *)
(*   0807  JMP $0807                                                       *)

InitBinary ==
    \E carry \in {\h18, \h38}, a \in Byte, b \in Byte :
        Boot(Rom(\h0800, <<carry, \hA9, a, \hE9, b, \h69, b, \h4C, \h07, \h08>>, 0),
             NoDisk)

SpecBinary == InitBinary /\ [][Next]_vars

\* the carry-in the program gives SBC: 1 after SEC, 0 after CLC
CarryIn == IF Code(0) = \h38 THEN 1 ELSE 0

\* the engine is about to execute the instruction k bytes into the program
About(k) == Fetching /\ processor.pc = W16(Origin + k)

\* C3: with Decimal mode off, SBC of b from (acc = a, Carry = c) and then ADC
\* of the same b with the Carry c2 that SBC produced leaves the accumulator at
\* (a - 1 + c + c2) mod 256: a is restored exactly when one of the two carries
\* is set and the other clear, and every a, b, c ends on a or one off it.
C3_SbcThenAdc ==
    [][About(5) =>
         /\ BitAnd(processor.flags, FLAG_D) = 0
         /\ processor'.acc = W8(Code(2) + 255 + CarryIn + BitAnd(processor.flags, FLAG_C))
         /\ (processor'.acc = Code(2)) <=> (CarryIn + BitAnd(processor.flags, FLAG_C) = 1)
         /\ panic' = "none"]_vars

\* SEC; LDA #5; SBC #3; ADC #3 has run and left 6 in the accumulator
C3_Witness ==
    /\ Code(0) = \h38 /\ Code(2) = 5 /\ Code(4) = 3
    /\ processor.pc = W16(Origin + 7) /\ processor.clock = 8
    /\ processor.acc = 6 /\ panic = "none"

\* C3 as the specification words it: once SBC and ADC have run the accumulator
\* is a again
C3_RoundTripRestores ==
    (thread = "loop" /\ processor.pc = W16(Origin + 7)) => processor.acc = Code(2)

---------------------------------------------------------------------------
(* Decimal ADC.                                                            *)
(*   0800  SED     0801  CLC or SEC     0802  LDA #a     0804  ADC #b      *)
(*   0806  JMP $0806                                                       *)

\* the bytes whose two nibbles are decimal digits
BcdBytes == {x \in Byte : x % 16 <= 9 /\ x \div 16 <= 9}

\* the number a BCD byte encodes, and the BCD byte of a number below 100
FromBcd(x) == (x \div 16) * 10 + (x % 16)

ToBcd(n) == (n \div 10) * 16 + (n % 10)

InitDecimal ==
    \E carry \in {\h18, \h38}, a \in BcdBytes, b \in BcdBytes :
        Boot(Rom(\h0800, <<\hF8, carry, \hA9, a, \h69, b, \h4C, \h06, \h08>>, 0),
             NoDisk)

SpecDecimal == InitDecimal /\ [][Next]_vars

\* a + b + c of the decimal program, as a number
DecimalSum == FromBcd(Code(3)) + FromBcd(Code(5)) + (IF Code(1) = \h38 THEN 1 ELSE 0)

\* C4: in Decimal mode, for valid BCD a and b and carry-in c, ADC leaves the
\* accumulator at the BCD encoding of (a + b + c) mod 100 and sets Carry exactly
\* when a + b + c >= 100; 0x79 + 0x00 + 0 gives 0x79 with Carry clear and
\* 0x99 + 0x01 + 0 gives 0x00 with Carry set.
C4_DecimalAdc ==
    [][About(4) =>
         /\ BitAnd(processor.flags, FLAG_D) # 0
         /\ processor.acc = Code(3)
         /\ BitAnd(processor.flags, FLAG_C) = (IF Code(1) = \h38 THEN 1 ELSE 0)
         /\ processor'.acc = ToBcd(DecimalSum % 100)
         /\ (BitAnd(processor'.flags, FLAG_C) # 0) <=> (DecimalSum >= 100)
         /\ (Code(1) = \h18 /\ Code(3) = \h79 /\ Code(5) = \h00)
              => (processor'.acc = \h79 /\ BitAnd(processor'.flags, FLAG_C) = 0)
         /\ (Code(1) = \h18 /\ Code(3) = \h99 /\ Code(5) = \h01)
              => (processor'.acc = \h00 /\ BitAnd(processor'.flags, FLAG_C) = 1)
         /\ panic' = "none"]_vars

\* SED; CLC; LDA #$99; ADC #$01 has run: the accumulator is 0x00, Carry is set
C4_Witness ==
    /\ Code(1) = \h18 /\ Code(3) = \h99 /\ Code(5) = \h01
    /\ processor.pc = W16(Origin + 6) /\ processor.clock = 8
    /\ processor.inst = \h69
    /\ processor.acc = \h00 /\ BitAnd(processor.flags, FLAG_C) = 1

---------------------------------------------------------------------------
(* Zero-page indexed addressing.                                           *)
(*   0800  LDA #$A5     0802  LDX #i     0804  STA base,X     0806  JMP .. *)
(*   0800  LDX #$A5     0802  LDY #i     0804  STX base,Y     0806  JMP .. *)

InitZeroPage ==
    \E p \in {<<\hA9, \hA2, \h95>>, <<\hA2, \hA0, \h96>>}, i \in Byte, base \in Byte :
        Boot(Rom(\h0800, <<p[1], \hA5, p[2], i, p[3], base, \h4C, \h06, \h08>>, 0),
             NoDisk)

SpecZeroPage == InitZeroPage /\ [][Next]_vars

\* the effective address the store of the zero-page program is to resolve
ZeroPageTarget == (Code(5) + Code(3)) % 256

\* C5: for every zero-page base byte and every index register value the
\* address resolved for ZeroPageX and ZeroPageY is (base + index) mod 256, in
\* 0x0000..0x00FF: the indexed store writes there and nowhere else (base 0xFF
\* with index 0x02 is 0x0001, never 0x0101).
C5_ZeroPageIndexWraps ==
    [][About(4) =>
         /\ get_adressing_mode(Code(4)) =
              (IF Code(4) = \h95 THEN "ZeroPageX" ELSE "ZeroPageY")
         /\ (IF Code(4) = \h95 THEN processor.rx ELSE processor.ry) = Code(3)
         /\ get_ld_adddr(Self, get_adressing_mode(Code(4))).v = ZeroPageTarget
         /\ ZeroPageTarget \in 0 .. \hFF
         /\ data' = Poke(data, ZeroPageTarget, \hA5)
         /\ processor'.pc = W16(Origin + 6)
         /\ panic' = "none"]_vars

\* LDA #$A5; LDX #$02; STA $FF,X has run: 0xA5 is at 0x0001, 0x0101 is untouched
C5_Witness ==
    /\ Code(4) = \h95 /\ Code(5) = \hFF /\ Code(3) = \h02
    /\ processor.pc = W16(Origin + 6) /\ processor.inst = \h95
    /\ Peek(Self, \h0001) = \hA5 /\ Peek(Self, \h0101) = 0
    /\ panic = "none"

---------------------------------------------------------------------------
(* PHA then PLA.                                                           *)
(*   0800  LDX #s     0802  TXS     0803  LDA #a     0805  PHA             *)
(*   0806  LDA #(255 - a)     0808  PLA     0809  JMP $0809                *)

InitStack ==
    \E s \in Byte, a \in Byte :
        Boot(Rom(\h0800, <<\hA2, s, \h9A, \hA9, a, \h48, \hA9, 255 - a, \h68,
                           \h4C, \h09, \h08>>, 0),
             NoDisk)

SpecStack == InitStack /\ [][Next]_vars

\* C6: for every accumulator value and every stack pointer value, 0x00
\* included, PHA and then PLA with no stack traffic in between restores the
\* accumulator (overwritten in between) to its value before PHA and leaves the
\* stack pointer at its value before PHA.
C6_PhaThenPla ==
    [][/\ About(5) => /\ processor.acc = Code(4) /\ processor.sp = Code(1)
                      /\ processor'.sp = (Code(1) + 255) % 256
                      /\ panic' = "none"
       /\ About(8) => /\ processor.acc = 255 - Code(4)
                      /\ processor.sp = (Code(1) + 255) % 256
                      /\ processor'.acc = Code(4)
                      /\ processor'.sp = Code(1)
                      /\ panic' = "none"]_vars

\* with sp = 0x00 and acc = 0xA5: PHA wrote 0xA5 at 0x0100 and moved sp to 0xFF,
\* PLA has brought both back
C6_Witness ==
    /\ Code(1) = \h00 /\ Code(4) = \hA5
    /\ processor.pc = W16(Origin + 9) /\ processor.inst = \h68
    /\ processor.acc = \hA5 /\ processor.sp = \h00
    /\ Peek(Self, \h0100) = \hA5 /\ panic = "none"

---------------------------------------------------------------------------
(* JSR then RTS.                                                           *)
(*   0800  LDX #s     0802  TXS     0803  JMP p                            *)
(*   p     JSR t      p + 3  JMP p + 3          t  RTS                     *)
(* with p + 3 taken mod 2^16, so that p can be the last bytes of the space *)

\* where the JSR is placed, and where it calls
JsrAddresses == {\h0900, \h09FE, \hFFFE, \hFFFF}

JsrTargets == {\h1234, \h20FF}

SubroutineImage(s, p, t) ==
    Load(Load(Load(Rom(\h0800, <<\hA2, s, \h9A, \h4C, Lo(p), Hi(p)>>, 0),
                   p, <<\h20, Lo(t), Hi(t)>>),
              W16(p + 3), <<\h4C, Lo(W16(p + 3)), Hi(W16(p + 3))>>),
         t, <<\h60>>)

InitSubroutine ==
    \E s \in Byte, p \in JsrAddresses, t \in JsrTargets :
        Boot(SubroutineImage(s, p, t), NoDisk)

SpecSubroutine == InitSubroutine /\ [][Next]_vars

\* the address the program placed its JSR (or its BRK) at
Placed == Code(4) + 256 * Code(5)

\* the engine is about to execute the instruction with this opcode
AboutOpcode(opcode) == Fetching /\ Peek(Self, processor.pc) = opcode

\* C7: for every JSR at an address p and every stack pointer value, JSR and
\* then RTS at the target resumes at p + 3 and restores the stack pointer to its
\* value before JSR.
C7_JsrThenRts ==
    [][/\ AboutOpcode(\h20) => /\ processor.pc = Placed /\ processor.sp = Code(1)
                               /\ panic' = "none"
       /\ AboutOpcode(\h60) => /\ processor'.pc = W16(Placed + 3)
                               /\ processor'.sp = Code(1)
                               /\ panic' = "none"]_vars

\* what holds of C7: the round trip everywhere but in a build with overflow
\* checks when the return address p + 2 is beyond 16 bits
C7_JsrThenRtsUnlessOverflow ==
    [][~(overflow_checks /\ Placed + 2 > \hFFFF) =>
        /\ AboutOpcode(\h20) => /\ processor.pc = Placed /\ processor.sp = Code(1)
                                /\ panic' = "none"
        /\ AboutOpcode(\h60) => /\ processor'.pc = W16(Placed + 3)
                                /\ processor'.sp = Code(1)
                                /\ panic' = "none"]_vars

\* JSR $1234 has run at 0x0900 and RTS has resumed at 0x0903
C7_Resumed ==
    /\ Placed = \h0900 /\ processor.inst = \h60 /\ processor.pc = \h0903
    /\ processor.sp = Code(1) /\ panic = "none"

\* the build with overflow checks has ended in the JSR at 0xFFFE
C7_PanicAtTop ==
    /\ Placed = \hFFFE /\ processor.pc = \hFFFE /\ panic = "overflow"

---------------------------------------------------------------------------
(* BRK then RTI.                                                           *)
(*   0800  LDX #s     0802  TXS     0803  LDA #f     0805  PHA             *)
(*   0806  PLP        0807  JMP p                                          *)
(*   p     BRK        p + 2  JMP p + 2          2000  RTI                  *)
(* PLA-free: PHA and PLP leave sp at s and the flags at f when BRK starts. *)
(* With p = 0xFFFE the BRK opcode is also the low byte of the BRK vector.  *)

BrkAddresses == {\h0900, \h09FE, \hFFFE}

StackPointers == {\h00, \h01, \h02, \h03, \h7F, \h80, \hFE, \hFF}

InterruptImage(s, f, p) ==
    Load(Load(Rom(\h0800, <<\hA2, s, \h9A, \hA9, f, \h48, \h28,
                            \h4C, Lo(p), Hi(p)>>, \h2000),
              W16(p + 2), <<\h4C, Lo(W16(p + 2)), Hi(W16(p + 2))>>),
         \h2000, <<\h40>>)

InitInterrupt ==
    \E s \in StackPointers, f \in Byte, p \in BrkAddresses :
        Boot(InterruptImage(s, f, p), NoDisk)

SpecInterrupt == InitInterrupt /\ [][Next]_vars

\* the address the program placed its BRK at
BrkAt == Code(8) + 256 * Code(9)

\* C8: for every reachable flags value, BRK address p and stack pointer value,
\* BRK and then RTI at the handler resumes at p + 2, restores the stack pointer
\* and leaves the flags equal to the flags before BRK, Interrupt-disable being
\* the only bit BRK itself changes in between.
C8_BrkThenRti ==
    [][/\ (AboutOpcode(\h00) /\ processor.pc = BrkAt) =>
            /\ processor.flags = Code(4) /\ processor.sp = Code(1)
            /\ processor'.flags = BitOr(processor.flags, FLAG_I)
            /\ panic' = "none"
       /\ AboutOpcode(\h40) =>
            /\ processor'.pc = W16(BrkAt + 2)
            /\ processor'.sp = Code(1)
            /\ processor'.flags = Code(4)
            /\ panic' = "none"]_vars

\* what holds of C8: RTI leaves the flags before BRK with the two reserved bits
\* set, in every case but a build with overflow checks when p + 2 is beyond 16
\* bits
C8_BrkThenRtiSetsReserved ==
    [][~(overflow_checks /\ BrkAt + 2 > \hFFFF) =>
        /\ (AboutOpcode(\h00) /\ processor.pc = BrkAt) =>
             /\ processor.flags = Code(4) /\ processor.sp = Code(1)
             /\ processor'.flags = BitOr(processor.flags, FLAG_I)
             /\ panic' = "none"
        /\ AboutOpcode(\h40) =>
             /\ processor'.pc = W16(BrkAt + 2)
             /\ processor'.sp = Code(1)
             /\ processor'.flags = BitOr(Code(4), \h30)
             /\ panic' = "none"]_vars

\* PLP gave the flags 0x00, BRK at 0x0900 and RTI have run: the flags are 0x30
C8_FlagsChanged ==
    /\ BrkAt = \h0900 /\ Code(4) = \h00 /\ processor.inst = \h40
    /\ processor.pc = \h0902 /\ processor.sp = Code(1)
    /\ processor.flags = \h30 /\ panic = "none"

---------------------------------------------------------------------------
(* A sector through the disk data port.                                    *)
(*   0800  LDA #cmd     0802  STA $FFD7                                    *)
(*   0805  LDA $FFD0 (cmd = 0x20) or STA $FFD0 (cmd = 0x30)                *)
(*   0808  LDA $FFD7    080B  JMP $0805                                    *)
(* run for 514 passes of the loop, on a disk image of one sector and on    *)
(* one of two sectors.                                                     *)

\* a disk image of n bytes in which the bytes at i, i + 1 and i + 256 differ
DiskImage(n) == [i \in 1 .. n |-> ((i - 1) * 5 + ((i - 1) \div 256) + 1) % 256]

DiskSizes == {512, 1024}

InitDisk ==
    \E cmd \in {<<\h20, \hAD>>, <<\h30, \h8D>>}, n \in DiskSizes :
        Boot(Rom(\h0800, <<\hA9, cmd[1], \h8D, \hD7, \hFF, cmd[2], \hD0, \hFF,
                           \hAD, \hD7, \hFF, \h4C, \h05, \h08>>, 0),
             DiskImage(n))

SpecDisk == InitDisk /\ [][Next]_vars

\* the engine is about to read the data port, with the Read command written
ReadingData == About(5) /\ Code(1) = \h20

\* C9: with a disk image attached and block address 0, after 0x20 is written
\* to register 7 the next 512 reads of register 0 return bytes 0..511 of the
\* backing store in order; the 513th read of register 0 clears the command,
\* and a read of register 7 after it returns 0x50.
C9_ReadSector ==
    [][/\ (ReadingData /\ disk_cnt < 512) =>
            /\ lba = 0 /\ command = "Read"
            /\ processor'.acc = disk[disk_cnt + 1]
            /\ disk_cnt' = disk_cnt + 1
            /\ command' = "Read"
            /\ panic' = "none"
       /\ (ReadingData /\ disk_cnt = 512) =>
            /\ command = "Read" /\ command' = "None" /\ panic' = "none"
       /\ (About(8) /\ Code(1) = \h20 /\ disk_cnt > 512) =>
            /\ command = "None" /\ processor'.acc = \h50]_vars

\* what holds of C9: the same on a disk image with a byte at index 512
C9_ReadSectorOfLargerDisk ==
    [][Len(disk) > 512 =>
        /\ (ReadingData /\ disk_cnt < 512) =>
             /\ lba = 0 /\ command = "Read"
             /\ processor'.acc = disk[disk_cnt + 1]
             /\ disk_cnt' = disk_cnt + 1
             /\ command' = "Read"
             /\ panic' = "none"
        /\ (ReadingData /\ disk_cnt = 512) =>
             /\ command = "Read" /\ command' = "None" /\ panic' = "none"
             /\ processor'.acc = disk[513]
        /\ (About(8) /\ Code(1) = \h20 /\ disk_cnt > 512) =>
             /\ command = "None" /\ processor'.acc = \h50]_vars

\* the 513th read of the data port of a one-sector disk has ended the engine
C9_PanicOnRead513 ==
    /\ Code(1) = \h20 /\ Len(disk) = 512 /\ disk_cnt = 512
    /\ processor.pc = W16(Origin + 5) /\ panic = "index"

\* C10: after exactly 512 bytes have gone through the data port following a
\* Read or Write command the command is None without any further access: a
\* read of register 7 right after the 512th transfer returns 0x50, not 0x58.
C10_IdleAfter512 ==
    (disk_cnt = 512 /\ panic = "none") =>
        /\ command = "None"
        /\ read(Self, CF_ADDRESS + 7).v = \h50

\* what holds in place of C10: after the 512th transfer the command stays and
\* register 7 reads 0x58; the command goes with a 513th transfer
C10_BusyAfter512 ==
    /\ (thread = "loop" /\ panic = "none" /\ disk_cnt = 512) =>
          /\ command = (IF Code(1) = \h20 THEN "Read" ELSE "Write")
          /\ read(Self, CF_ADDRESS + 7).v = \h58
    /\ disk_cnt <= 513
    /\ (thread = "loop" /\ disk_cnt = 513) => command = "None"

\* 512 bytes have been written through the data port and the status read after
\* them has returned 0x58
C10_BusyStatusRead ==
    /\ Code(1) = \h30 /\ disk_cnt = 512 /\ command = "Write"
    /\ processor.pc = W16(Origin + 11) /\ processor.acc = \h58
    /\ panic = "none"

---------------------------------------------------------------------------
(* The disk registers without a disk image.                                *)
(*   0800  LDA #v    0802  STA $FFD0+r    0805  LDA $FFD0+r                *)
(*   0808  JMP $0808                                                       *)

DiskRegisters == 0 .. 15

InitNoDisk ==
    \E v \in Byte, r \in DiskRegisters :
        Boot(Rom(\h0800, <<\hA9, v, \h8D, \hD0 + r, \hFF, \hAD, \hD0 + r, \hFF,
                           \h4C, \h08, \h08>>, 0),
             NoDisk)

SpecNoDisk == InitNoDisk /\ [][Next]_vars

\* C11: with no disk image attached every read of a disk register address
\* returns 0 and every write to one is a no-op: it changes neither the disk
\* controller state (command, byte offset, block address) nor the flat
\* address space, and never fails.
C11_NoDiskRegistersInert ==
    [][/\ (Len(disk) = 0 /\ About(2)) =>
            /\ data' = data
            /\ command' = command /\ disk_cnt' = disk_cnt /\ lba' = lba
            /\ panic' = "none"
       /\ (Len(disk) = 0 /\ About(5)) =>
            /\ processor'.acc = 0
            /\ panic' = "none"]_vars

\* what holds of C11: the disk registers are plain memory without a disk
\* image; the controller state does not change and nothing fails
C11_NoDiskRegistersAreMemory ==
    [][/\ (Len(disk) = 0 /\ About(2)) =>
            /\ data' = Poke(data, CF_ADDRESS + (Code(3) - \hD0), Code(1))
            /\ command' = command /\ disk_cnt' = disk_cnt /\ lba' = lba
            /\ panic' = "none"
       /\ (Len(disk) = 0 /\ About(5)) =>
            /\ processor'.acc = Code(1)
            /\ command' = command /\ disk_cnt' = disk_cnt /\ lba' = lba
            /\ panic' = "none"]_vars

\* 0x20 written to register 7 without a disk image has been read back
C11_WrittenByteReadBack ==
    /\ Len(disk) = 0 /\ Code(1) = \h20 /\ Code(3) = \hD7
    /\ processor.pc = W16(Origin + 8) /\ processor.acc = \h20
    /\ Peek(Self, CF_ADDRESS + 7) = \h20
    /\ command = "None" /\ panic = "none"

---------------------------------------------------------------------------
(* The timer card on its own: a Via built with any of a few field values,  *)
(* then written, read and ticked in any order.                             *)

\* the longest run of consecutive tick() calls that is explored
MaxViaTicks == 12

\* the (register, value) pairs written: the timer-1 bytes, ACR, PCR, IFR, IER
\* and a register the card does not have
ViaWrites ==
    ({4, 6} \X {0, 3, 10}) \cup ({5, 7} \X {0}) \cup ({\h0B, \h0E} \X {0, \h40})
    \cup ({\h0C, \h0D} \X {\hC0}) \cup {<<0, 1>>}

ViaReads == {0, 4, 5, 6, 7, \h0B, \h0C, \h0D, \h0E}

InitVia ==
    /\ \E checks \in BOOLEAN : Is(new(<<>>, NoDisk, checks))
    /\ thread = "via"
    /\ \E latch \in {0, 3}, cnt \in {0, 2}, ier \in {0, \h40}, acr \in {0, \h40},
          interrupt \in BOOLEAN :
          via = [NoVia EXCEPT !.timer1latch = latch, !.timer1cnt = cnt, !.ier = ier,
                              !.acr = acr, !.interrupt = interrupt]
    /\ via_calls = NoViaCalls
    /\ app = AppNew

Computer == <<processor, data, disk, lba, disk_cnt, command, paused, step_req,
              speed, log_level, info, tx, rx, thread, panic, overflow_checks>>

\* via.tick()
ViaTick ==
    /\ thread = "via"
    /\ via_calls.ticks < MaxViaTicks
    /\ via' = via_tick(via)
    /\ via_calls' = [via_calls EXCEPT !.ticks = @ + 1]
    /\ UNCHANGED <<Computer, app>>

\* via.write(reg, val)
ViaWrite ==
    /\ thread = "via"
    /\ \E w \in ViaWrites :
          /\ via' = via_write(via, w[1], w[2])
          /\ via_calls' = [loaded |-> w[1] = 5, ticks |-> 0]
    /\ UNCHANGED <<Computer, app>>

\* via.read(reg)
ViaRead ==
    /\ thread = "via"
    /\ \E reg \in ViaReads : via' = via_read(via, reg).v
    /\ via_calls' = [loaded |-> FALSE, ticks |-> 0]
    /\ UNCHANGED <<Computer, app>>

NextVia == ViaTick \/ ViaWrite \/ ViaRead

SpecVia == InitVia /\ [][NextVia]_vars

\* C12: on a timer controller whose timer-1 interrupt enable bit (IER bit 6)
\* is set, once the timer-1 high byte has been written and has loaded the
\* counter with the latch value 10 (10 written to the low byte of a latch that
\* was 0, then 0 to the high byte), the interrupt line is not asserted after
\* any of the first nine tick() calls and is asserted after the tenth.
C12_InterruptOnTenthTick ==
    (/\ via_calls.loaded /\ via.timer1latch = 10
     /\ BitAnd(via.ier, \h40) # 0) =>
        /\ via_calls.ticks \in 0 .. 9 =>
              (~via_get_interrupt(via) /\ via.timer1cnt = 10 - via_calls.ticks)
        /\ via_calls.ticks = 10 => via_get_interrupt(via)

\* ten ticks after the load of 10, with the interrupt asserted
C12_Witness ==
    /\ via_calls.loaded /\ via_calls.ticks = 10
    /\ via.timer1latch = 10 /\ BitAnd(via.ier, \h40) # 0
    /\ via.acr = 0 /\ via.timer1cnt = 0
    /\ via_get_interrupt(via) /\ via.ifr = \hC0

---------------------------------------------------------------------------
(* The relative branches.                                                  *)
(*   0800  LDX #$FF  TXS  LDA #f  PHA  PLP    0807  JMP p                  *)
(*   p     Bxx offset                                                      *)

\* BPL BMI BVC BVS BRA BCC BCS BNE BEQ
BranchOpcodes == {\h10, \h30, \h50, \h70, \h80, \h90, \hB0, \hD0, \hF0}

BranchAddresses == {\h1000, \h10FF, \hFFFE, \hFFFF}

BranchOffsets == {\h00, \h01, \h7F, \h80, \hFE, \hFF}

\* no flag, then Carry, Zero, Overflow, Negative alone, then all of them
BranchFlags == {\h30, \h31, \h32, \h70, \hB0, \hF3}

BranchImage(f, p, opcode, offset) ==
    Load(Rom(\h0800, <<\hA2, \hFF, \h9A, \hA9, f, \h48, \h28,
                       \h4C, Lo(p), Hi(p)>>, 0),
         p, <<opcode, offset>>)

InitBranch ==
    \E f \in BranchFlags, p \in BranchAddresses, opcode \in BranchOpcodes,
       offset \in BranchOffsets :
        Boot(BranchImage(f, p, opcode, offset), NoDisk)

SpecBranch == InitBranch /\ [][Next]_vars

\* the address the branch was placed at
BranchAt == Code(8) + 256 * Code(9)

\* the engine is about to execute the branch, the flags of the program in place
AboutBranch ==
    /\ Fetching /\ processor.pc = BranchAt /\ processor.clock = 23
    /\ processor.flags = Code(4)

\* the flag condition of the branch opcode
BranchCondition(opcode, flags) ==
    CASE opcode = \h10 -> BitAnd(flags, FLAG_N) = 0
      [] opcode = \h30 -> BitAnd(flags, FLAG_N) # 0
      [] opcode = \h50 -> BitAnd(flags, FLAG_O) = 0
      [] opcode = \h70 -> BitAnd(flags, FLAG_O) # 0
      [] opcode = \h80 -> TRUE
      [] opcode = \h90 -> BitAnd(flags, FLAG_C) = 0
      [] opcode = \hB0 -> BitAnd(flags, FLAG_C) # 0
      [] opcode = \hD0 -> BitAnd(flags, FLAG_Z) = 0
      [] opcode = \hF0 -> BitAnd(flags, FLAG_Z) # 0

\* pc after the branch at pc: pc + 2, plus the signed offset when taken
BranchTarget(pc, opcode, offset, flags) ==
    IF BranchCondition(opcode, flags)
    THEN (pc + 2 + (IF offset >= 128 THEN offset - 256 ELSE offset)) % 65536
    ELSE (pc + 2) % 65536

\* the step leaves pc at the branch target and changes nothing else but the clock
Branched ==
    /\ processor'.pc = BranchTarget(processor.pc, Peek(Self, processor.pc),
                                     Peek(Self, W16(processor.pc + 1)),
                                     processor.flags)
    /\ processor'.acc = processor.acc /\ processor'.rx = processor.rx
    /\ processor'.ry = processor.ry /\ processor'.sp = processor.sp
    /\ processor'.flags = processor.flags
    /\ data' = data
    /\ panic' = "none"

\* C13: for each of BCC, BCS, BEQ, BNE, BMI, BPL, BVC, BVS and BRA, every pc,
\* every offset byte and every flags value: if the branch's flag condition
\* holds (always, for BRA) the new pc is (pc + 2 + signed8(offset)) mod 2^16,
\* otherwise it is pc + 2; no register, flag or memory byte other than pc and
\* the clock changes.
C13_BranchTarget == [][AboutBranch => Branched]_vars

\* the branch adds to pc with `+`, which panics on overflow in a checked build
BranchOverflows ==
    /\ overflow_checks
    /\ \/ processor.pc = \hFFFF
       \/ /\ processor.pc = \hFFFE
          /\ Peek(Self, processor.pc) \in {\h10, \h30, \h80, \h90, \hB0}

\* what holds of C13: the same wherever the additions do not overflow in a
\* checked build, and there the engine panics
C13_BranchTargetUnlessOverflow ==
    [][AboutBranch => IF BranchOverflows THEN panic' = "overflow" ELSE Branched]_vars

\* BRA with offset 0xFE at 0x1000 has landed at 0x1000
C13_Landed ==
    /\ BranchAt = \h1000 /\ Peek(Self, \h1000) = \h80 /\ Peek(Self, \h1001) = \hFE
    /\ processor.pc = \h1000 /\ processor.clock = 26 /\ panic = "none"

\* BCC at 0xFFFE has ended the engine
C13_PanicAtTop ==
    /\ BranchAt = \hFFFE /\ Peek(Self, \hFFFE) = \h90
    /\ processor.pc = \hFFFE /\ panic = "overflow"

---------------------------------------------------------------------------
(* The serial port.                                                        *)
(*   0800  LDX #start                                                      *)
(*   0802  STX $FFE0   0805  STX $FFE1   0808  STX $0200   080B  PHA       *)
(*   080C  INX         080D  BNE $0802   080F  JMP $080F                   *)
(* with a disk image attached, and a host that ticks on any of its tabs.   *)

SerialProgram(start) ==
    <<\hA2, start, \h8E, \hE0, \hFF, \h8E, \hE1, \hFF, \h8E, \h00, \h02, \h48,
      \hE8, \hD0, \hF3, \h4C, \h0F, \h08>>

SerialStarts == {\hFD, \hFF}

Tabs == {"Main", "Memory", "Help"}

InitSerial ==
    /\ \E start \in SerialStarts, tab \in Tabs, checks \in BOOLEAN :
          /\ Is(new(Rom(\h0800, SerialProgram(start), 0), DiskImage(512), checks))
          /\ app = [AppNew EXCEPT !.current_tab = tab]
    /\ thread = "new"
    /\ via = NoVia /\ via_calls = NoViaCalls

SpecSerial == InitSerial /\ [][NextServed]_vars

IsOutput(message) == message.type = "Output"

\* the values of the Output messages among messages, in order
Outputs(messages) ==
    LET outs == SelectSeq(messages, IsOutput)
    IN  [i \in 1 .. Len(outs) |-> outs[i].v]

\* the values start .. 0xFF
CountFrom(start) == [i \in 1 .. 256 - start |-> start + i - 1]

\* the engine is about to run the instruction at Origin + k, perhaps after
\* taking requests of the host
Executing(k) ==
    /\ thread = "loop" /\ panic = "none" /\ ~paused
    /\ processor.clock < Budget(Self) /\ ~Spinning(Self)
    /\ processor.pc = W16(Origin + k)

\* a step of the engine adds one Output, with the value written, exactly when
\* it executes the STX $FFE0
EngineStepOutputs ==
    (app' = app /\ thread = "loop") =>
        Outputs(tx') = (IF Executing(2) THEN Append(Outputs(tx), processor.rx)
                        ELSE Outputs(tx))

\* a tick of the host takes everything sent so far, in the order sent
HostStepReceives ==
    app' # app => (tx' = tx /\ app'.received = tx)

\* what the host has received is the beginning of what was sent, and the loop
\* at its end has sent start .. 0xFF
ReceivedInOrder ==
    /\ Len(app.received) <= Len(tx)
    /\ app.received = SubSeq(tx, 1, Len(app.received))
    /\ (thread = "loop" /\ Spinning(Self)) => Outputs(tx) = CountFrom(Code(1))

\* C14: every write the program makes to the serial mailbox address 0xFFE0
\* emits exactly one Output event carrying the written value, no other memory
\* write emits an Output, and the host receives these events in the order the
\* writes were executed (a loop writing start..0xFF once each yields exactly
\* those values in order).
C14_OutputPerMailboxWrite ==
    [][EngineStepOutputs /\ HostStepReceives]_vars /\ []ReceivedInOrder

\* the loop from 0xFD has ended and the host has received its three bytes
C14_Witness ==
    /\ thread = "loop" /\ Spinning(Self) /\ Code(1) = \hFD
    /\ Outputs(tx) = <<\hFD, \hFE, \hFF>>
    /\ Outputs(app.received) = <<\hFD, \hFE, \hFF>>
    /\ Peek(Self, \hFFE1) = \hFF /\ Peek(Self, \h0200) = \hFF

---------------------------------------------------------------------------
(* Snapshots.  The engine runs                                             *)
(*   0800  LDA #1    0802  ORA ($10)                                       *)
(* whose second instruction reports itself and does not advance, so the    *)
(* stall detector of add_info pauses the engine at its second run; the     *)
(* host ticks and presses keys at any point.                               *)

InitSnapshot == Boot(Rom(\h0800, <<\hA9, \h01, \h12, \h10>>, 0), NoDisk)

SpecSnapshot == InitSnapshot /\ [][NextHosted]_vars

IsRequest(message) == message.type \in {"GetMemory", "GetProc"}

IsReply(message) == message.type \in {"Memory", "Processor"}

\* the engine thread makes a call of step
EngineSteps == app' = app /\ thread = "loop" /\ panic = "none"

\* the ComputerMessages the step sends
SentByStep == SubSeq(tx', Len(tx) + 1, Len(tx'))

\* the messages of rx ahead of its i-th request
AheadOfRequest(i) ==
    LET at == CHOOSE n \in 1 .. Len(rx) :
                  /\ IsRequest(rx[n])
                  /\ Len(SelectSeq(SubSeq(rx, 1, n), IsRequest)) = i
    IN  SubSeq(rx, 1, at - 1)

ChangesState(message) == message.type \in {"Reset", "SendChar"}

\* reply is the reply to request, with a copy of the state as it is when no
\* Reset or SendChar is handled ahead of the request
RepliesTo(reply, request, ahead) ==
    /\ request.type = "GetMemory" =>
          /\ reply.type = "Memory"
          /\ SelectSeq(ahead, ChangesState) = <<>> => reply.data = data
    /\ request.type = "GetProc" =>
          /\ reply.type = "Processor"
          /\ SelectSeq(ahead, ChangesState) = <<>> => reply.processor = processor

---------------------------------------------------------------------------
(* The engine and the host.  The engine runs                               *)
(*   0800  STX $FFE0    0803  INX    0804  BNE $0800                       *)
(* which sends a byte on every pass; the host ticks on any tab, quits (F2) *)
(* or does nothing at all.                                                 *)

InitLoop ==
    /\ \E tab \in Tabs, checks \in BOOLEAN :
          /\ Is(new(Rom(\h0800, <<\h8E, \hE0, \hFF, \hE8, \hD0, \hFA>>, 0),
                    NoDisk, checks))
          /\ app = [AppNew EXCEPT !.current_tab = tab]
    /\ thread = "new"
    /\ via = NoVia /\ via_calls = NoViaCalls

\* the engine thread is scheduled: a call it can make is made
SpecLoopFair ==
    InitLoop /\ [][NextLeaving]_vars /\ WF_vars(Spawn) /\ StepIsFair

\* the engine has run to the end of the run that is explored
RanOut == thread = "loop" /\ panic = "none" /\ processor.clock >= Budget(Self)

---------------------------------------------------------------------------
(* Reset.  With a disk image attached the engine runs                      *)
(*   0800  LDA #$20    0802  STA $FFD7    0805  LDA $FFD0    0808  TAY     *)
(*   0809  ORA ($10)                                                       *)
(* which starts a sector read, takes a byte of it, and then stalls, so the *)
(* stall detector pauses the engine; the host ticks and presses keys, F4   *)
(* (Reset) among them, at any point.                                       *)

InitReset ==
    Boot(Rom(\h0800, <<\hA9, \h20, \h8D, \hD7, \hFF,
                       \hAD, \hD0, \hFF, \hA8,
                       \h12, \h10>>, 0),
         DiskImage(512))

SpecReset == InitReset /\ [][NextHosted]_vars

IsReset(message) == message.type = "Reset"

\* a Reset is waiting in rx
ResetWaiting == SelectSeq(rx, IsReset) # <<>>

\* c is the Computer a reset leaves
JustReset(c) ==
    /\ c.processor.pc = Peek(Self, \hFFFC) + 256 * Peek(Self, \hFFFD)
    /\ c.disk_cnt = 0 /\ c.command = "None"
    /\ ~c.paused /\ c.panic = "none"

\* the step that takes a Reset leaves the disk idle and the engine running, and
\* has executed the instruction at the reset vector (LDA #$20) and no other
ResetStep ==
    (EngineSteps /\ ResetWaiting) =>
        /\ disk_cnt' = 0 /\ command' = "None" /\ ~paused' /\ panic' = "none"
        /\ processor'.pc = W16(Origin + 2) /\ processor'.acc = \h20

\* C17: after a Reset command is processed, pc equals the little-endian word
\* stored at 0xFFFC/0xFFFD, the disk byte offset is 0, the disk command is
\* None, and the engine is Running (not paused), including when the engine
\* was paused by the stall detector before the Reset.
C17_ResetRestarts ==
    /\ []((thread = "loop" /\ panic = "none") =>
            JustReset(HandleMessage(Self, [type |-> "Reset"])))
    /\ [][ResetStep]_vars

\* the engine, paused by the stall detector in the middle of a sector read,
\* has taken a Reset and run the first instruction again
C17_Witness ==
    /\ thread = "loop" /\ ~paused /\ rx = <<>>
    /\ info # <<>> /\ info[Len(info)].qty >= 2
    /\ processor.pc = W16(Origin + 2) /\ processor.clock = 2
    /\ disk_cnt = 0 /\ command = "None"

\* the engine is paused by the stall detector with a sector read under way
\* and a Reset waiting
C17_PausedBeforeReset ==
    /\ thread = "loop" /\ paused /\ ResetWaiting
    /\ command = "Read" /\ disk_cnt = 1

\* the processor a reset would leave now
ResetProcessor == reset(Self).processor

\* C18: reset() overwrites every processor field except the clock: after
\* reset the values of flags, acc, X, Y, stack pointer and pc do not depend
\* on their values before the reset, and the cycle clock is the one field
\* reset leaves unchanged.
C18_ResetOverwritesAllButClock ==
    [][(thread = "loop" /\ thread' = "loop" /\ panic' = "none") =>
        /\ ResetProcessor'.flags = ResetProcessor.flags
        /\ ResetProcessor'.acc = ResetProcessor.acc
        /\ ResetProcessor'.rx = ResetProcessor.rx
        /\ ResetProcessor'.ry = ResetProcessor.ry
        /\ ResetProcessor'.sp = ResetProcessor.sp
        /\ ResetProcessor'.pc = ResetProcessor.pc
        /\ ResetProcessor.clock = processor.clock]_vars

\* what holds in place of C18: reset overwrites pc and the clock and leaves
\* every other processor field as it is
C18_ResetOverwritesPcAndClock ==
    (thread = "loop" /\ panic = "none") =>
        ResetProcessor = [processor EXCEPT !.pc = Origin, !.clock = 0]

\* a Reset has been taken: the clock has restarted and Y still holds the disk
\* byte the program put there before the Reset
C18_RegisterSurvivesReset ==
    /\ thread = "loop" /\ rx = <<>> /\ info # <<>> /\ info[Len(info)].qty >= 2
    /\ processor.pc = W16(Origin + 2) /\ processor.clock = 2
    /\ processor.ry = disk[1] /\ processor.ry # 0

(***************************************************************************)
(* Log lines at verbosity 0.                                               *)
(***************************************************************************)
IsInfo(message) == message.type = "Info"

\* C19: While the log verbosity is 0 (silent) the engine emits no LogLine
\* (Info) event, whatever instruction sequence it executes.
C19_SilentAtLevelZero ==
    log_level = 0 => SelectSeq(tx, IsInfo) = <<>>

\* what holds in place of C19: at verbosity 0 an instruction with an
\* implemented addressing mode emits no Info; the lines that are emitted come
\* from the unconditional add_info calls and from add_info's own stall notice
C19_InfoOnlyFromUnimplementedMode ==
    [][(EngineSteps /\ log_level = 0 /\ panic' = "none"
            /\ SelectSeq(SentByStep, IsInfo) # <<>>) =>
        /\ processor'.pc = processor.pc
        /\ processor'.clock = processor.clock
        /\ info' # info]_vars

\* the engine has put an Info on the channel while the verbosity is 0
C19_InfoEmittedWhileSilent ==
    /\ log_level = 0 /\ ~paused /\ panic = "none"
    /\ SelectSeq(tx, IsInfo) # <<>>

(***************************************************************************)
(* The host's F7 key.  handle_key_events sends TogglePause on the Main     *)
(* tab; the engine takes it in step's message loop.                        *)
(***************************************************************************)
IsTogglePause(message) == message.type = "TogglePause"

\* the only messages waiting for the engine are TogglePause commands, and
\* their number is odd
TogglePauseWaiting ==
    /\ rx # <<>>
    /\ SelectSeq(rx, IsTogglePause) = rx
    /\ Len(rx) % 2 = 1

\* C20: Processing a toggle-pause command from the host changes the engine's
\* run-state: a Running engine becomes Paused, and a Paused engine resumes or
\* executes a single step, so the host can always pause a running engine and
\* later make a paused engine advance.
C20_TogglePauseChangesRunState ==
    [][(EngineSteps /\ TogglePauseWaiting /\ panic' = "none") =>
        IF paused
        THEN ~paused' \/ processor' # processor
        ELSE paused' /\ processor' = processor]_vars

\* what holds in place of C20: the engine discards a TogglePause, so a step
\* that takes only TogglePause commands is the step it would have been without
\* them
C20_TogglePauseIgnored ==
    /\ [](thread = "loop" =>
            HandleMessage(Self, [type |-> "TogglePause"]) = Self)
    /\ [][(EngineSteps /\ TogglePauseWaiting) =>
            /\ paused => (paused' /\ processor' = processor)
            /\ step([Self EXCEPT !.rx = <<>>]).processor = processor'
            /\ step([Self EXCEPT !.rx = <<>>]).paused = paused']_vars

\* a TogglePause waits for a running engine; a TogglePause waits for a paused
\* engine
C20_ToggleSentToRunning ==
    thread = "loop" /\ panic = "none" /\ TogglePauseWaiting /\ ~paused

C20_ToggleSentToPaused ==
    thread = "loop" /\ panic = "none" /\ TogglePauseWaiting /\ paused

(***************************************************************************)
(* The stall detector of add_info: a line equal to the last one pauses the *)
(* engine.                                                                 *)
(***************************************************************************)
IsPausedNotice(message) ==
    message.type = "Info" /\ message.msg = <<"Computer paused">>

\* the step logs the line that is already the last of info
RepeatsLine ==
    /\ info # <<>>
    /\ Len(info') = Len(info)
    /\ info'[Len(info)].msg = info[Len(info)].msg
    /\ info'[Len(info)].qty = info[Len(info)].qty + 1

\* a step that takes the engine into a stall pauses it with one notice and
\* without a failure; a step that does not repeat a line sends no notice
StallPauses ==
    EngineSteps =>
        IF RepeatsLine
        THEN /\ paused' /\ panic' = "none" /\ thread' = "loop"
             /\ Len(SelectSeq(SentByStep, IsPausedNotice)) = 1
        ELSE SelectSeq(SentByStep, IsPausedNotice) = <<>>

\* a paused engine executes nothing while the host sends no Reset: memory is
\* as the messages taken leave it (SendChar stores the character)
PausedStays ==
    (EngineSteps /\ paused /\ ~ResetWaiting) =>
        /\ paused' /\ panic' = "none" /\ thread' = "loop"
        /\ processor' = processor /\ info' = info
        /\ data' = Drain(Self).data
        /\ SelectSeq(SentByStep, IsInfo) = <<>>

\* C21: When the engine produces the same log line twice consecutively, it
\* enters Paused and emits exactly one diagnostic ('Computer paused') event
\* for that stall; after that it executes no further instruction until a host
\* command resumes it, and it never terminates because of the stall.
C21_StallPausesOnce == [][StallPauses /\ PausedStays]_vars

\* the engine is paused by the stall detector and the notice is on the channel
C21_Witness ==
    /\ thread = "loop" /\ panic = "none" /\ paused
    /\ info # <<>> /\ info[Len(info)].qty = 2
    /\ tx # <<>> /\ IsPausedNotice(tx[Len(tx)])

(***************************************************************************)
(* The step of a paused engine.                                            *)
(***************************************************************************)
\* C22: A step() call made while the engine is Paused with no step requested
\* and no command pending executes no instruction: every processor register,
\* the flags, the clock, all 64KB of memory and the disk controller state are
\* unchanged, and no event is emitted.
C22_PausedStepIsIdle ==
    [][(EngineSteps /\ paused /\ ~step_req /\ rx = <<>>) =>
        /\ UNCHANGED <<processor, data, disk, lba, disk_cnt, command>>
        /\ UNCHANGED <<tx, info, paused, step_req, panic>>]_vars

\* the engine is paused in the middle of a sector read with nothing to take
\* from the host
C22_Witness ==
    /\ thread = "loop" /\ panic = "none" /\ paused /\ ~step_req
    /\ rx = <<>> /\ info # <<>>
    /\ command = "Read" /\ disk_cnt = 1 /\ processor.clock > 0

(***************************************************************************)
(* The two reserved bits of the status register.                           *)
(***************************************************************************)
Reserved(flags) == BitAnd(flags, \h30) = \h30

\* C23: In every reachable state the two reserved bits of the status register
\* (mask 0x30) are set, after any sequence of instructions including PLP and
\* RTI pulling arbitrary bytes from the stack.
C23_ReservedBitsSet ==
    (thread = "loop" /\ panic = "none") => Reserved(processor.flags)

\* what holds in place of C23: every instruction but PLP (0x28) and RTI (0x40)
\* leaves the reserved bits set when they were set
C23_ReservedBitsKeptButByPull ==
    [][(Fetching /\ Reserved(processor.flags)
            /\ processor'.inst \notin {\h28, \h40}) =>
        Reserved(processor'.flags)]_vars

\* PLP has pulled a byte with both reserved bits clear into the flags
C23_ReservedBitsCleared ==
    /\ thread = "loop" /\ panic = "none" /\ processor.inst = \h28
    /\ BitAnd(processor.flags, \h30) = 0

(***************************************************************************)
(* Every opcode at the top of the address space.                           *)
(*   0800  LDX #$FF    0802  LDY #$FF    0804  JMP p                       *)
(*   p     op b1 b2    (p = 0xFFFE or 0xFFFF: the operand bytes are round  *)
(*                      the end of the 64KB space)                         *)
(***************************************************************************)
TopAddresses == {\hFFFE, \hFFFF}

TopOperands == {<<\hFF, \hFF>>, <<\h10, \h02>>}

TopImage(p, op, b) ==
    Load(Rom(\h0800, <<\hA2, \hFF, \hA0, \hFF, \h4C, Lo(p), Hi(p)>>, 0),
         p, <<op, b[1], b[2]>>)

InitTop ==
    \E p \in TopAddresses, op \in Byte, b \in TopOperands :
        Boot(TopImage(p, op, b), NoDisk)

SpecTop == InitTop /\ [][Next]_vars

\* the engine is about to execute the instruction placed at the top
AboutTop ==
    /\ Fetching /\ processor.inst = \h4C
    /\ processor.pc = Code(5) + 256 * Code(6)

\* C24: For every pc value including 0xFFFE and 0xFFFF, every address an
\* instruction computes (operand address pc+1 / pc+2, return address pushed
\* by JSR/BRK, next pc, indexed and indirect effective addresses) is reduced
\* modulo 2^16, so no instruction execution fails or accesses outside the
\* 64KB space because of address arithmetic.
C24_AddressArithmeticWraps ==
    [][AboutTop => /\ panic' = "none"
                   /\ processor'.pc \in 0 .. \hFFFF
                   /\ DOMAIN data' \subseteq 0 .. \hFFFF]_vars

\* what holds in place of C24: in a build without overflow checks every
\* opcode at 0xFFFE and 0xFFFF executes and stays inside the 64KB space; in a
\* build with them the only failure is the overflow of a `+` on pc
C24_WrapsUnlessChecked ==
    [][AboutTop => /\ panic' \in {"none", "overflow"}
                   /\ panic' = "overflow" => overflow_checks
                   /\ processor'.pc \in 0 .. \hFFFF
                   /\ DOMAIN data' \subseteq 0 .. \hFFFF]_vars

\* LDA #imm at 0xFFFF has ended the engine in a build with overflow checks
C24_PanicAtTop ==
    /\ panic = "overflow" /\ overflow_checks
    /\ processor.pc = \hFFFF /\ Peek(Self, \hFFFF) = \hA9

\* LDA abs,X at 0xFFFF with operand 0xFFFF and X = 0xFF has read 0x00FE in a
\* build without overflow checks and gone on to 0x0002
C24_WrappedAtTop ==
    /\ panic = "none" /\ ~overflow_checks /\ processor.inst = \hBD
    /\ processor.pc = 2 /\ processor.rx = \hFF /\ Peek(Self, \hFFFF) = \hBD

(***************************************************************************)
(* Binary ADC.                                                             *)
(*   0800  SEI    0801  CLC or SEC    0802  LDA #a    0804  ADC #b         *)
(*   0806  JMP $0806                                                       *)
(***************************************************************************)
InitAdd ==
    \E carry \in {\h18, \h38}, a \in Byte, b \in Byte :
        Boot(Rom(\h0800, <<\h78, carry, \hA9, a, \h69, b, \h4C, \h06, \h08>>, 0),
             NoDisk)

SpecAdd == InitAdd /\ [][Next]_vars

\* a + b + c of the program, as a number
BinarySum == Code(3) + Code(5) + (IF Code(1) = \h38 THEN 1 ELSE 0)

Sign(x) == x \div 128

Has(flags, flag) == BitAnd(flags, flag) # 0

\* C25: With Decimal mode off, for all accumulator values a, operands b and
\* carry-in c, ADC sets the accumulator to (a + b + c) mod 256, sets Carry
\* exactly when a + b + c > 255, sets Overflow exactly when a and b have the
\* same sign bit and the result has the opposite sign bit, sets Zero and
\* Negative from the result, and leaves Decimal and Interrupt-disable
\* unchanged.
C25_BinaryAdc ==
    [][About(4) =>
         /\ ~Has(processor.flags, FLAG_D) /\ Has(processor.flags, FLAG_I)
         /\ processor.acc = Code(3)
         /\ Has(processor.flags, FLAG_C) <=> (Code(1) = \h38)
         /\ processor'.acc = BinarySum % 256
         /\ Has(processor'.flags, FLAG_C) <=> (BinarySum > 255)
         /\ Has(processor'.flags, FLAG_O) <=>
                /\ Sign(Code(3)) = Sign(Code(5))
                /\ Sign(BinarySum % 256) # Sign(Code(3))
         /\ Has(processor'.flags, FLAG_Z) <=> (BinarySum % 256 = 0)
         /\ Has(processor'.flags, FLAG_N) <=> (BinarySum % 256 >= 128)
         /\ ~Has(processor'.flags, FLAG_D) /\ Has(processor'.flags, FLAG_I)
         /\ panic' = "none"]_vars

\* SEI; SEC; LDA #$7F; ADC #$00 has run: the accumulator is 0x80 with Overflow
\* and Negative set, Carry and Zero clear
C25_Witness ==
    /\ Code(1) = \h38 /\ Code(3) = \h7F /\ Code(5) = \h00
    /\ processor.pc = \h0806 /\ processor.inst = \h69 /\ panic = "none"
    /\ processor.acc = \h80
    /\ Has(processor.flags, FLAG_O) /\ Has(processor.flags, FLAG_N)
    /\ ~Has(processor.flags, FLAG_C) /\ ~Has(processor.flags, FLAG_Z)

(***************************************************************************)
(* Decimal SBC.                                                            *)
(*   0800  SED    0801  CLC or SEC    0802  LDA #a    0804  SBC #b         *)
(*   0806  JMP $0806                                                       *)
(***************************************************************************)
InitDecimalSub ==
    \E carry \in {\h18, \h38}, a \in BcdBytes, b \in BcdBytes :
        Boot(Rom(\h0800, <<\hF8, carry, \hA9, a, \hE9, b, \h4C, \h06, \h08>>, 0),
             NoDisk)

SpecDecimalSub == InitDecimalSub /\ [][Next]_vars

\* a - b - (1 - c) of the decimal program, as a number
DecimalDifference ==
    FromBcd(Code(3)) - FromBcd(Code(5)) - (IF Code(1) = \h38 THEN 0 ELSE 1)

\* C26: In Decimal mode, for all valid BCD accumulator values a and operands b
\* and carry-in c, SBC leaves the accumulator holding the BCD encoding of
\* (a - b - (1 - c)) mod 100 and sets Carry exactly when no decimal borrow
\* occurred (a - b - (1 - c) >= 0), without any arithmetic underflow in the
\* intermediate nibble computations.
C26_DecimalSbc ==
    [][About(4) =>
         /\ Has(processor.flags, FLAG_D)
         /\ processor.acc = Code(3)
         /\ Has(processor.flags, FLAG_C) <=> (Code(1) = \h38)
         /\ processor'.acc = ToBcd((DecimalDifference + 100) % 100)
         /\ Has(processor'.flags, FLAG_C) <=> (DecimalDifference >= 0)
         /\ ~SbcDecimal(processor.flags, processor.acc, Code(5)).wrapped
         /\ panic' = "none"]_vars

\* SED; SEC; LDA #$00; SBC #$01 has run: the accumulator is 0x99, Carry is clear
C26_Witness ==
    /\ Code(0) = \hF8 /\ Code(1) = \h38 /\ Code(3) = \h00 /\ Code(5) = \h01
    /\ processor.pc = \h0806 /\ processor.inst = \hE9 /\ panic = "none"
    /\ processor.acc = \h99 /\ ~Has(processor.flags, FLAG_C)

(***************************************************************************)
(* Shifts and rotates.                                                     *)
(*   0800  CLC or SEC    0801  LDX #$01    0803  LDA #a                    *)
(*   0805  ASL/LSR/ROL/ROR in one of: A, $10, $0F,X, $0210, $020F,X        *)
(*         JMP to itself                                                   *)
(* with the byte m at 0x0010 and at 0x0210.                                *)
(***************************************************************************)
ShiftOpcodes ==
    {\h0A, \h06, \h16, \h0E, \h1E,  \h4A, \h46, \h56, \h4E, \h5E,
     \h2A, \h26, \h36, \h2E, \h3E,  \h6A, \h66, \h76, \h6E, \h7E}

ShiftAccumulators == {\h00, \hA5}

\* the instruction with its operand bytes, by addressing mode
ShiftInstruction(opcode) ==
    CASE get_adressing_mode(opcode) = "Accumulator" -> <<opcode>>
      [] get_adressing_mode(opcode) = "ZeroPage" -> <<opcode, \h10>>
      [] get_adressing_mode(opcode) = "ZeroPageX" -> <<opcode, \h0F>>
      [] get_adressing_mode(opcode) = "Absolute" -> <<opcode, \h10, \h02>>
      [] get_adressing_mode(opcode) = "AbsoluteX" -> <<opcode, \h0F, \h02>>

\* the address the instruction operates on
ShiftAddress(opcode) ==
    IF get_adressing_mode(opcode) \in {"ZeroPage", "ZeroPageX"} THEN \h10 ELSE \h0210

ShiftImage(carry, a, m, opcode) ==
    LET at == \h0805 + Len(ShiftInstruction(opcode))
    IN  Load(Load(Rom(\h0800, <<carry, \hA2, \h01, \hA9, a>> \o ShiftInstruction(opcode)
                                  \o <<\h4C, Lo(at), Hi(at)>>, 0),
                  \h10, <<m>>),
             \h0210, <<m>>)

InitShift ==
    \E carry \in {\h18, \h38}, a \in ShiftAccumulators, m \in Byte,
       opcode \in ShiftOpcodes :
        Boot(ShiftImage(carry, a, m, opcode), NoDisk)

SpecShift == InitShift /\ [][Next]_vars

\* the result of shifting v with carry-in cin, and the bit shifted out
ShiftResult(name, v, cin) ==
    CASE name = "ASL" -> (v * 2) % 256
      [] name = "LSR" -> v \div 2
      [] name = "ROL" -> (v * 2 + cin) % 256
      [] name = "ROR" -> (v \div 2) + 128 * cin

ShiftedOut(name, v) ==
    IF name \in {"ASL", "ROL"} THEN v >= 128 ELSE v % 2 = 1

\* the step executes the shift of the program on the value v
Shifts(v) ==
    LET opcode == Code(5)
        name   == get_opcode_name(opcode)
        cin    == BitAnd(processor.flags, FLAG_C)
    IN  /\ panic' = "none"
        /\ Has(processor'.flags, FLAG_C) <=> ShiftedOut(name, v)
        /\ IF get_adressing_mode(opcode) = "Accumulator"
           THEN /\ processor'.acc = ShiftResult(name, v, cin)
                /\ data' = data
           ELSE /\ Peek([data |-> data'], ShiftAddress(opcode)) = ShiftResult(name, v, cin)
                /\ processor'.acc = processor.acc
                /\ \A addr \in (DOMAIN data \cup DOMAIN data') \ {ShiftAddress(opcode)} :
                       Peek([data |-> data'], addr) = Peek(Self, addr)

\* C27: For ASL, LSR, ROL and ROR in every memory addressing mode (zero-page,
\* zero-page,X, absolute, absolute,X), the value shifted is the byte read from
\* the effective address, the result is written back to that address and the
\* accumulator is unchanged; in Accumulator mode the accumulator is shifted
\* and memory is unchanged; in all modes Carry becomes the bit shifted out, and
\* ROL/ROR insert the prior Carry into the vacated bit.
C27_ShiftsOperand ==
    [][About(5) =>
        /\ Code(5) \in ShiftOpcodes
        /\ get_opcode_name(Code(5)) \in {"ASL", "LSR", "ROL", "ROR"}
        /\ Shifts(IF get_adressing_mode(Code(5)) = "Accumulator"
                  THEN processor.acc
                  ELSE Peek(Self, ShiftAddress(Code(5))))]_vars

\* what holds in place of C27: the same, but ROL and ROR in the two absolute
\* modes rotate the accumulator and store the result at the effective address
C27_RotatesAccumulatorInAbsolute ==
    [][About(5) =>
        Shifts(IF \/ get_adressing_mode(Code(5)) = "Accumulator"
                  \/ /\ get_opcode_name(Code(5)) \in {"ROL", "ROR"}
                     /\ get_adressing_mode(Code(5)) \in {"Absolute", "AbsoluteX"}
               THEN processor.acc
               ELSE Peek(Self, ShiftAddress(Code(5))))]_vars

\* CLC; LDA #$A5; ROL $0210 with 0x01 at 0x0210 has stored 0x4A, the
\* accumulator rotated, and set Carry
C27_AccumulatorStored ==
    /\ Code(0) = \h18 /\ Code(4) = \hA5 /\ Code(5) = \h2E
    /\ processor.inst = \h2E /\ processor.pc = \h0808 /\ panic = "none"
    /\ Peek(Self, \h0010) = \h01 /\ Peek(Self, \h0210) = \h4A
    /\ processor.acc = \hA5 /\ Has(processor.flags, FLAG_C)

(***************************************************************************)
(* Branches on a bit of a zero-page byte.                                  *)
(*   0800  BBRn $10, offset   or   BBSn $10, offset                        *)
(* with the byte m at 0x0010.                                              *)
(***************************************************************************)
BitBranchOpcodes == {\h0F + \h10 * n : n \in 0 .. 15}

BitBranchOffsets == {\h00, \h05, \h7F, \h80, \hFD, \hFF}

BitBranchBytes == {\h00, \h01, \h55, \h80, \hAA, \hFF}

InitBitBranch ==
    \E opcode \in BitBranchOpcodes, offset \in BitBranchOffsets, m \in BitBranchBytes :
        Boot(Load(Rom(\h0800, <<opcode, \h10, offset>>, 0), \h10, <<m>>), NoDisk)

SpecBitBranch == InitBitBranch /\ [][Next]_vars

Signed8(x) == IF x >= 128 THEN x - 256 ELSE x

\* bit n of the byte at the zero-page address of the program's branch, n the
\* bit its opcode names
TestedBit == (Peek(Self, Code(1)) \div (2 ^ ((Code(0) \div 16) % 8))) % 2

\* BBSn (opcodes 0x8F and above) branches on a set bit, BBRn on a clear one
BitBranchTaken == IF Code(0) >= \h80 THEN TestedBit = 1 ELSE TestedBit = 0

\* C28: For every n in 0..7, BBRn (opcode 0x0F + 0x10*n) and BBSn (opcode
\* 0x8F + 0x10*n) test bit n of the byte at the zero-page address given by the
\* first operand byte; BBRn branches when the bit is clear and BBSn when it is
\* set; a taken branch sets pc to (pc + 3 + signed8(offset)) mod 2^16, where
\* offset is the second operand byte interpreted as a signed 8-bit value (so
\* offset 0xFD branches backwards), and a branch not taken sets pc to pc + 3.
C28_BitBranchTarget ==
    [][About(0) =>
        /\ panic' = "none"
        /\ processor'.pc = IF BitBranchTaken
                           THEN (processor.pc + 3 + Signed8(Code(2)) + 65536) % 65536
                           ELSE processor.pc + 3]_vars

\* what holds in place of C28: the same for BBSn; a taken BBRn adds the offset
\* byte as an unsigned number, so it only branches forwards
C28_BbrOffsetUnsigned ==
    [][About(0) =>
        /\ panic' = "none"
        /\ processor'.pc =
              IF ~BitBranchTaken THEN processor.pc + 3
              ELSE IF Code(0) >= \h80
              THEN (processor.pc + 3 + Signed8(Code(2)) + 65536) % 65536
              ELSE (processor.pc + 3 + Code(2)) % 65536]_vars

\* BBR0 $10 with offset 0xFD and 0x00 at 0x0010 has gone forwards to 0x0900;
\* BBS0 with offset 0xFD and 0x01 at 0x0010 has gone back to 0x0800
C28_BbrWentForwards ==
    /\ Code(0) = \h0F /\ Code(2) = \hFD /\ Peek(Self, \h10) = \h00
    /\ processor.inst = \h0F /\ processor.pc = \h0900 /\ processor.clock = 4
    /\ panic = "none"

C28_BbsWentBack ==
    /\ Code(0) = \h8F /\ Code(2) = \hFD /\ Peek(Self, \h10) = \h01
    /\ processor.inst = \h8F /\ processor.pc = \h0800 /\ processor.clock = 4
    /\ panic = "none"

(***************************************************************************)
(* Opcodes without a handler.                                              *)
(***************************************************************************)
\* the mnemonics run_instruction has no arm of their own for
Unhandled == {"", "NOP2", "NOP3", "TSB", "TRB"}

\* the engine is about to execute an opcode without a handler
AboutUnhandled ==
    Fetching /\ get_opcode_name(Peek(Self, processor.pc)) \in Unhandled

\* the step moves pc by n bytes and changes nothing but pc, the clock and the
\* instruction register
SkipsBytes(n) ==
    /\ panic' = "none"
    /\ processor' = [processor EXCEPT !.pc = W16(processor.pc + n),
                                      !.clock = processor'.clock,
                                      !.inst = Peek(Self, processor.pc)]
    /\ UNCHANGED <<data, disk, lba, disk_cnt, command, paused, step_req>>

\* C29: Executing an opcode that has no handler (empty mnemonic, NOP2, NOP3,
\* and decoded-but-unimplemented mnemonics such as TSB/TRB) advances pc by its
\* encoded length of 1, 2 or 3 bytes and changes nothing else: accumulator, X,
\* Y, stack pointer, flags, memory, disk state and run-state are unchanged,
\* and no failure occurs.
C29_UnhandledSkipsItsLength ==
    [][AboutUnhandled =>
        SkipsBytes(EncodedLength(get_adressing_mode(Peek(Self, processor.pc))))]_vars

\* what holds in place of C29: NOP2 skips 2 bytes, NOP3 skips 3, and every
\* other opcode without a handler, TSB and TRB included, skips 1
C29_UnhandledSkipsAsNop ==
    [][AboutUnhandled =>
        SkipsBytes(CASE get_opcode_name(Peek(Self, processor.pc)) = "NOP2" -> 2
                     [] get_opcode_name(Peek(Self, processor.pc)) = "NOP3" -> 3
                     [] OTHER -> 1)]_vars

\* TSB $10 (0x04) at 0x0400 has moved pc to its operand byte
C29_TsbSkippedOneByte ==
    /\ Peek(Self, \h0400) = \h04 /\ processor.inst = \h04
    /\ processor.pc = \h0401 /\ processor.clock = 2 /\ panic = "none"

(***************************************************************************)
(* The disk command register.                                              *)
(*   0800  LDA #$20    0802  STA $FFD7    0805  LDA $FFD0                  *)
(*   0808  LDA #v      080A  STA $FFD7 or $FFDF    080D  JMP $080D         *)
(* on a disk image of one sector: the second command is written with the   *)
(* byte count at 1.                                                        *)
(***************************************************************************)
CommandRegisters == {\hD7, \hDF}

InitCommand ==
    \E v \in Byte, r \in CommandRegisters :
        Boot(Rom(\h0800, <<\hA9, \h20, \h8D, \hD7, \hFF, \hAD, \hD0, \hFF,
                           \hA9, v, \h8D, r, \hFF, \h4C, \h0D, \h08>>, 0),
             DiskImage(512))

SpecCommand == InitCommand /\ [][Next]_vars

\* the command the value written selects
Selected(v) ==
    IF v = \h20 THEN "Read" ELSE IF v = \h30 THEN "Write" ELSE "None"

\* C30 as stated: Writing any value to disk register 7 sets the command to
\* Read for 0x20, Write for 0x30 and None for every other value, and in every
\* case (including values that select None) resets the sector byte offset to
\* 0.
C30_CommandWriteResetsOffset ==
    [][About(10) =>
        /\ command = "Read" /\ disk_cnt = 1
        /\ command' = Selected(Code(9))
        /\ disk_cnt' = 0
        /\ panic' = "none"]_vars

\* C30: Writing any value to disk register 7 sets the command to Read for
\* 0x20, Write for 0x30 and None for every other value; it resets the sector
\* byte offset to 0 when the value selects Read or Write and leaves the offset
\* as it is when the value selects None.
C30_CommandWrite ==
    [][About(10) =>
        /\ command = "Read" /\ disk_cnt = 1
        /\ command' = Selected(Code(9))
        /\ disk_cnt' = IF Selected(Code(9)) = "None" THEN disk_cnt ELSE 0
        /\ UNCHANGED <<disk, lba>>
        /\ panic' = "none"]_vars

\* 0x00 has been written to register 7 in the middle of a sector read: the
\* command is None and the byte count is still 1
C30_Witness ==
    /\ Code(9) = \h00 /\ processor.pc = \h080D /\ processor.inst = \h8D
    /\ command = "None" /\ disk_cnt = 1 /\ panic = "none"

(***************************************************************************)
(* The block address registers of the disk.                                *)
(*   0800  LDA #w    0802  STA $FFD3  STA $FFD4  STA $FFD5  STA $FFD6      *)
(*   080E  LDA #a  STA ra   LDA #b  STA rb   LDA #c  STA rc   LDA #d       *)
(*   081F  STA rd    0822  JMP $0822                                       *)
(* ra..rd the registers 3, 4, 5, 6 in one of three orders, on a disk image *)
(* of one sector.                                                          *)
(***************************************************************************)
LbaOrders == {<<3, 4, 5, 6>>, <<6, 5, 4, 3>>, <<4, 6, 3, 5>>}

LbaBytes == {\h00, \h01, \hF5}

LbaProgram(w, o, v) ==
    <<\hA9, w, \h8D, \hD3, \hFF, \h8D, \hD4, \hFF, \h8D, \hD5, \hFF, \h8D, \hD6, \hFF,
      \hA9, v[1], \h8D, \hD0 + o[1], \hFF,
      \hA9, v[2], \h8D, \hD0 + o[2], \hFF,
      \hA9, v[3], \h8D, \hD0 + o[3], \hFF,
      \hA9, v[4], \h8D, \hD0 + o[4], \hFF,
      \h4C, \h22, \h08>>

\* the image Rom(0x0800, code, 0) is, written out: the non-zero bytes of the
\* code and the high byte of the reset vector
LbaImage(code) ==
    [a \in {\h0800 + i - 1 : i \in {j \in 1 .. Len(code) : code[j] # 0}} \cup {\hFFFD} |->
        IF a = \hFFFD THEN \h08 ELSE code[a - \h0800 + 1]]

InitLba ==
    \E w \in {\h00, \hFF}, o \in LbaOrders,
       v \in [1 .. 4 -> LbaBytes] :
        Boot(LbaImage(LbaProgram(w, o, v)), DiskImage(512))

SpecLba == InitLba /\ [][Next]_vars

\* the byte the program writes last to disk register r
LbaByte(r) ==
    Code(15 + 5 * (CHOOSE k \in 0 .. 3 : Code(17 + 5 * k) = \hD0 + r))

\* C31: After writing bytes v3, v4, v5, v6 to disk registers 3, 4, 5, 6 (in
\* any order, each write replacing only its own byte), the logical block
\* address equals v3 + (v4 << 8) + (v5 << 16) + ((v6 & 0x0F) << 24):
\* register 6 contributes its low four bits as address bits 24..27.
C31_LbaFromRegisters ==
    [][About(31) =>
        /\ panic' = "none"
        /\ lba' = LbaByte(3) + LbaByte(4) * 256 + LbaByte(5) * 65536
                  + (LbaByte(6) % 16) * 16777216]_vars

\* what holds in place of C31: registers 3, 4 and 5 each replace their own
\* byte, and a write to register 6 clears bits 24..31 and sets none
C31_LbaWithoutRegister6 ==
    [][About(31) =>
        /\ panic' = "none"
        /\ lba' = LbaByte(3) + LbaByte(4) * 256 + LbaByte(5) * 65536]_vars

\* 0xF5 has been written to all four registers: the block address is 0xF5F5F5
C31_Register6Ignored ==
    /\ LbaByte(3) = \hF5 /\ LbaByte(4) = \hF5 /\ LbaByte(5) = \hF5 /\ LbaByte(6) = \hF5
    /\ processor.pc = \h0822 /\ panic = "none"
    /\ lba = \hF5F5F5

(***************************************************************************)
(* The timer-1 latch, the interrupt flag register and the free-running     *)
(* timer of the Via, on the reachable states of the card.                  *)
(***************************************************************************)
LatchBytes == {\h00, \h01, \h0A, \h80, \hFF}

\* C32: Writing the low byte (register 4) or high byte (register 5) of the
\* timer-1 latch replaces that half of the 16-bit reload value with the
\* written byte whatever the latch held before; writing the high byte
\* additionally sets the live counter to the resulting latch value and clears
\* the pending interrupt.
C32_LatchWriteReplaces ==
    thread = "via" =>
        \A val \in LatchBytes :
            /\ via_write(via, 4, val).timer1latch
                 = (via.timer1latch \div 256) * 256 + val
            /\ via_write(via, 5, val).timer1latch
                 = val * 256 + (via.timer1latch % 256)
            /\ via_write(via, 5, val).timer1cnt = via_write(via, 5, val).timer1latch
            /\ ~via_get_interrupt(via_write(via, 5, val))

\* what holds in place of C32: the written byte is OR-ed into its half of the
\* latch; the high byte write loads the counter and clears the interrupt
C32_LatchWriteOrs ==
    thread = "via" =>
        \A val \in LatchBytes :
            /\ via_write(via, 4, val).timer1latch = BitOr(via.timer1latch, val)
            /\ via_write(via, 5, val).timer1latch
                 = BitOr(via.timer1latch, val * 256)
            /\ via_write(via, 5, val).timer1cnt = via_write(via, 5, val).timer1latch
            /\ ~via_get_interrupt(via_write(via, 5, val))
            /\ via_write(via, 5, val).ifr = 0

\* 10 has been written to the low byte of a latch that held 3, and the high
\* byte write has loaded the counter: latch and counter are 11
C32_LatchMixed ==
    thread = "via" /\ via_calls.loaded /\ via.timer1latch = 11 /\ via.timer1cnt = 11

\* C33: After the timer has asserted its interrupt, reading the
\* interrupt-flag register (register 0xD) or writing to it clears the
\* interrupt condition: get_interrupt() returns false afterwards until the
\* timer expires again.
C33_IfrAccessClears ==
    (thread = "via" /\ via_get_interrupt(via)) =>
        /\ ~via_get_interrupt(via_read(via, \h0D).v)
        /\ \A val \in {\h00, \h40, \hC0, \hFF} :
               ~via_get_interrupt(via_write(via, \h0D, val))

\* what holds in place of C33: the interrupt is cleared by a read of register
\* 4 and by a write of register 5 or 7; an access to register 0xD leaves it
\* asserted
C33_IfrAccessKeepsInterrupt ==
    (thread = "via" /\ via_get_interrupt(via)) =>
        /\ via_get_interrupt(via_read(via, \h0D).v)
        /\ via_read(via, \h0D).v = via
        /\ \A val \in {\h00, \h40, \hC0, \hFF} :
               via_write(via, \h0D, val) = [via EXCEPT !.ifr = val]
        /\ ~via_get_interrupt(via_read(via, 4).v)
        /\ ~via_get_interrupt(via_write(via, 5, 0))
        /\ ~via_get_interrupt(via_write(via, 7, 0))

\* the interrupt is still asserted after the write of 0xC0 to register 0xD
\* that followed the tick asserting it
C33_StillAsserted ==
    /\ thread = "via" /\ via_get_interrupt(via)
    /\ ~via_calls.loaded /\ via_calls.ticks = 0 /\ via.ifr = \hC0
    /\ via.timer1cnt = 0

\* C34: With the timer-1 enable bit and the auto-reload control bit set and a
\* latch value N > 0 loaded into the counter, the timer is a periodic
\* interrupt source: over any sequence of tick() calls the interrupt line is
\* asserted after exactly the ticks numbered N, 2N, 3N, ... and the counter
\* never stays at 0.
C34_PeriodicInterrupt ==
    (/\ thread = "via" /\ via_calls.loaded /\ via.timer1latch > 0
     /\ BitAnd(via.ier, \h40) # 0 /\ BitAnd(via.acr, \h40) # 0) =>
        /\ via_get_interrupt(via) <=>
              (via_calls.ticks > 0 /\ via_calls.ticks % via.timer1latch = 0)
        /\ via.timer1cnt = via.timer1latch - (via_calls.ticks % via.timer1latch)
        /\ via.timer1cnt > 0

\* the second period of a timer reloading from a latch of 3 has ended: six
\* ticks after the load the interrupt is asserted and the counter is 3 again
C34_Witness ==
    /\ thread = "via" /\ via_calls.loaded /\ via.timer1latch = 3
    /\ BitAnd(via.ier, \h40) # 0 /\ BitAnd(via.acr, \h40) # 0
    /\ via_calls.ticks = 6 /\ via_get_interrupt(via) /\ via.timer1cnt = 3

---------------------------------------------------------------------------
(* The input mailbox.  The engine runs                                     *)
(*   0800  LDA $FFE0   0803  STA $0200                                     *)
(*   0806  LDA $FFE0   0809  STA $0201                                     *)
(*   080C  LDA $FFE0   080F  STA $0202   0812  JMP $0812                   *)
(* which reads the mailbox three times and keeps what it read; the host    *)
(* ticks and presses keys at any point.                                    *)

MailboxProgram ==
    <<\hAD, \hE0, \hFF, \h8D, \h00, \h02, \hAD, \hE0, \hFF, \h8D, \h01, \h02,
      \hAD, \hE0, \hFF, \h8D, \h02, \h02, \h4C, \h12, \h08>>

InitMailbox == Boot(LbaImage(MailboxProgram), NoDisk)

SpecMailbox == InitMailbox /\ [][NextHosted]_vars

IsSendChar(message) == message.type = "SendChar"

\* the bytes the host has sent that the engine has not taken yet
BytesQueued == SelectSeq(rx, IsSendChar)

\* the instruction the step runs, once its messages are handled, is a read of
\* the mailbox
ReadsMailbox ==
    /\ ~Drain(Self).paused
    /\ Peek(Drain(Self), Drain(Self).processor.pc) = \hAD

\* the step of the engine handles the bytes queued and then reads the mailbox
MailboxRead ==
    /\ BytesQueued # <<>> =>
          /\ Peek(Drain(Self), \hFFE0) = BytesQueued[Len(BytesQueued)].c
          /\ Peek(Drain(Self), \hFFE1) # 0
    /\ ReadsMailbox =>
          /\ processor'.acc = Peek(Drain(Self), \hFFE0)
          /\ Peek([data |-> data'], \hFFE0) = 0
          /\ Peek([data |-> data'], \hFFE1) = 0
    /\ (ReadsMailbox /\ BytesQueued = <<>> /\ Peek(Self, \hFFE1) = 0) =>
          processor'.acc = 0

\* C35: After the host sends an input byte c (SendInputByte / SendChar) and
\* the engine processes it, the mailbox 0xFFE0 holds c and the data-ready
\* flag at 0xFFE1 is non-zero; the program's next read of 0xFFE0 returns c
\* and clears the data-ready flag, and a further read of 0xFFE0 with no new
\* input returns 0, so each delivered byte is consumed at most once.
C35_MailboxConsumedOnce == [][EngineSteps => MailboxRead]_vars

\* the first read returned the letter sent, the second read, with nothing
\* sent in between, returned 0, and the mailbox is empty
C35_Witness ==
    /\ thread = "loop" /\ panic = "none" /\ processor.pc = \h080C
    /\ Peek(Self, \h0200) = \h41 /\ Peek(Self, \h0201) = 0
    /\ Peek(Self, \hFFE0) = 0 /\ Peek(Self, \hFFE1) = 0 /\ rx = <<>>

\* C36: Every input byte the host sends is delivered to the program: if the
\* host sends b1 and then b2 and the program polls the mailbox afterwards, the
\* program reads b1 and then b2; no input byte is overwritten or lost because
\* a second byte arrived before the first was read.
C36_BytesReadInOrder ==
    [][(EngineSteps /\ ReadsMailbox /\ Len(BytesQueued) >= 2 /\ Peek(Self, \hFFE1) = 0)
          => processor'.acc = BytesQueued[1].c]_vars

\* what holds in place of C36: the read returns the byte sent last, and the
\* bytes sent before it are gone
C36_LastByteWins ==
    [][(EngineSteps /\ ReadsMailbox /\ BytesQueued # <<>>)
          => /\ processor'.acc = BytesQueued[Len(BytesQueued)].c
             /\ rx' = <<>>
             /\ Peek([data |-> data'], \hFFE0) = 0]_vars

\* the letter and then Enter are waiting for the engine, which is about to
\* make its first read of an empty mailbox
C36_TwoBytesQueued ==
    /\ thread = "loop" /\ panic = "none" /\ processor.pc = \h0800
    /\ rx = <<[type |-> "SendChar", c |-> \h41], [type |-> "SendChar", c |-> \h0D]>>
    /\ Peek(Self, \hFFE0) = 0 /\ Peek(Self, \hFFE1) = 0

\* the first read returned Enter; the letter sent before it was never read
C36_FirstByteLost ==
    /\ thread = "loop" /\ panic = "none" /\ processor.pc = \h0812
    /\ Peek(Self, \h0200) = \h0D /\ Peek(Self, \h0201) = 0 /\ Peek(Self, \h0202) = 0
    /\ app.calls = 2 /\ tx = <<>> /\ rx = <<>> /\ app.current_tab = "Main"

\* the engine as it is once the messages of rx ahead of its i-th request are
\* handled
StateAhead(i) == Drain([Self EXCEPT !.rx = AheadOfRequest(i)])

\* snapshot shows the engine as the messages ahead of the i-th request left
\* the state in which the last instruction ended
ShowsBoundary(snapshot, i) ==
    /\ snapshot.type = "Processor" => snapshot.processor = StateAhead(i).processor
    /\ snapshot.type = "Memory" => snapshot.data = StateAhead(i).data

\* C40: Every ProcessorSnapshot and MemorySnapshot event reflects the engine
\* state at an instruction boundary: under every interleaving of host
\* commands with engine steps, no snapshot shows a state in which an
\* instruction has only partly executed (for example the return address
\* pushed by JSR but pc not yet updated).
C40_SnapshotAtBoundary ==
    [][EngineSteps =>
        /\ Len(SelectSeq(SentByStep, IsReply)) = Len(SelectSeq(rx, IsRequest))
        /\ \A i \in 1 .. Len(SelectSeq(SentByStep, IsReply)) :
              ShowsBoundary(SelectSeq(SentByStep, IsReply)[i], i)]_vars

\* the step that stored the letter has first answered GetMemory and GetProc:
\* the snapshots show the engine between the read and the store, with the
\* letter in the accumulator, pc at the store and nothing stored yet
C40_Witness ==
    /\ thread = "loop" /\ panic = "none" /\ processor.pc = \h0806
    /\ Peek(Self, \h0200) = \h41 /\ Len(tx) >= 2
    /\ tx[Len(tx)].type = "Processor" /\ tx[Len(tx) - 1].type = "Memory"
    /\ tx[Len(tx)].processor.pc = \h0803
    /\ tx[Len(tx)].processor.acc = \h41
    /\ Peek([data |-> tx[Len(tx) - 1].data], \hFFE0) = 0
    /\ Peek([data |-> tx[Len(tx) - 1].data], \hFFE1) = 0
    /\ Peek([data |-> tx[Len(tx) - 1].data], \h0200) = 0

---------------------------------------------------------------------------
(* The index of a data port access, on the sector loop of SpecDisk.        *)

\* the engine is about to access the data port with a Read or Write command
\* active
AccessingData ==
    /\ About(5) /\ Len(disk) > 0
    /\ \/ Code(1) = \h20 /\ command = "Read"
       \/ Code(1) = \h30 /\ command = "Write"

\* C37: Every access to the disk data port while a Read or Write command is
\* active uses a backing-store index lba*512 + offset that is strictly less
\* than the backing store's length and is computed without 32-bit overflow,
\* for every disk image size, every block address the program can load and
\* every number of consecutive data-port accesses.
C37_IndexInBounds ==
    [][AccessingData =>
        /\ lba < 8388608 /\ ~(lba = 8388607 /\ disk_cnt >= 512)
        /\ lba <= Len(disk) \div 512
        /\ lba * 512 + disk_cnt < Len(disk)
        /\ DiskIndex(Self).ok
        /\ panic' = "none"]_vars

\* what holds in place of C37: the index is within the image for the first 512
\* accesses after the command, and for the 513th on an image that has a byte
\* at lba*512 + 512
C37_IndexInBoundsWithinSector ==
    [][(AccessingData /\ (disk_cnt < 512 \/ Len(disk) > 512)) =>
        /\ lba = 0 /\ disk_cnt <= 512
        /\ lba * 512 + disk_cnt < Len(disk)
        /\ DiskIndex(Self).ok /\ DiskIndex(Self).i = disk_cnt
        /\ panic' = "none"]_vars

\* the 513th write to the data port of a one-sector image has indexed byte 512
\* of 512 and the engine thread has panicked
C37_PanicOnWrite513 ==
    /\ Code(1) = \h30 /\ Len(disk) = 512 /\ lba = 0
    /\ disk_cnt = 512 /\ command = "Write" /\ panic = "index"

---------------------------------------------------------------------------
(* INC A and DEC A, among the opcodes of SpecDecode.                       *)

\* the engine is about to execute INC A or DEC A
AboutIncDecA == AboutOpcode(\h1A) \/ AboutOpcode(\h3A)

\* the accumulator plus 1 (INC A) or minus 1 (DEC A), modulo 256
IncDecResult ==
    IF Peek(Self, processor.pc) = \h1A THEN W8(processor.acc + 1)
    ELSE W8(processor.acc + 255)

\* C38: INC and DEC in Accumulator mode (opcodes 0x1A and 0x3A) add or
\* subtract 1 from the accumulator modulo 256, set Zero and Negative from the
\* new accumulator value, and leave every memory byte unchanged.
C38_IncDecAccumulator ==
    [][AboutIncDecA =>
        /\ processor'.acc = IncDecResult
        /\ Has(processor'.flags, FLAG_Z) <=> (IncDecResult = 0)
        /\ Has(processor'.flags, FLAG_N) <=> (IncDecResult >= 128)
        /\ data' = data
        /\ panic' = "none"]_vars

\* what holds in place of C38: Zero and Negative are those of the result, which
\* is stored at address 0x0000; the accumulator and pc stay as they are
C38_IncDecStoresAtZero ==
    [][AboutIncDecA =>
        /\ processor'.acc = processor.acc
        /\ processor'.pc = processor.pc
        /\ Has(processor'.flags, FLAG_Z) <=> (IncDecResult = 0)
        /\ Has(processor'.flags, FLAG_N) <=> (IncDecResult >= 128)
        /\ data' = Poke(data, 0, IncDecResult)
        /\ panic' = "none"]_vars

\* DEC A has run on an accumulator of 0: the accumulator is still 0 and the
\* byte at address 0x0000 is 0xFF
C38_StoredAtZero ==
    /\ thread = "loop" /\ panic = "none" /\ Code(0) = \h3A
    /\ processor.inst = \h3A /\ processor.acc = 0
    /\ Peek(Self, 0) = \hFF /\ processor.pc = Origin
    /\ Has(processor.flags, FLAG_N)

---------------------------------------------------------------------------
(* Zero and Negative after ASL and LSR, on the programs of SpecShift.      *)

\* the engine is about to execute the ASL or LSR of the program
AboutAslLsr == About(5) /\ get_opcode_name(Code(5)) \in {"ASL", "LSR"}

\* the operand of the shift: the accumulator or the byte at the effective
\* address
ShiftOperand ==
    IF get_adressing_mode(Code(5)) = "Accumulator" THEN processor.acc
    ELSE Peek(Self, ShiftAddress(Code(5)))

\* C39: After ASL or LSR, in every addressing mode and for every operand
\* value, the Zero flag is set exactly when the shifted result is 0 and the
\* Negative flag equals bit 7 of the shifted result.
C39_FlagsOfShiftedResult ==
    [][AboutAslLsr =>
        /\ Has(processor'.flags, FLAG_Z)
              <=> (ShiftResult(get_opcode_name(Code(5)), ShiftOperand, 0) = 0)
        /\ Has(processor'.flags, FLAG_N)
              <=> (ShiftResult(get_opcode_name(Code(5)), ShiftOperand, 0) >= 128)]_vars

\* what holds in place of C39: Zero is set exactly when the operand was 0
\* before the shift; Negative is bit 7 of the result
C39_ZeroOfOperand ==
    [][AboutAslLsr =>
        /\ Has(processor'.flags, FLAG_Z) <=> (ShiftOperand = 0)
        /\ Has(processor'.flags, FLAG_N)
              <=> (ShiftResult(get_opcode_name(Code(5)), ShiftOperand, 0) >= 128)
        /\ panic' = "none"]_vars

\* ASL $10 has shifted 0x80 to 0: the byte is 0, Carry is set and Zero is
\* clear
C39_ZeroResultWithoutZero ==
    /\ Code(5) = \h06 /\ processor.inst = \h06 /\ processor.pc = \h0807
    /\ panic = "none" /\ Peek(Self, \h0010) = 0 /\ Peek(Self, \h0210) = \h80
    /\ Has(processor.flags, FLAG_C) /\ ~Has(processor.flags, FLAG_Z)

===========================================================================
